---- MODULE Spec2Model ----
(***************************************************************************)
(* A model of schemax: the YAML schema parser and validator, the           *)
(* language-model driven change generator, the CLI pipeline that drives    *)
(* them, the Unity Catalog state fetcher and the pydantic data model.      *)
(*                                                                         *)
(* Texts are sequences of characters.  A character is a one-character      *)
(* string; a longer string is a "word": a run of characters that begins    *)
(* and ends with a non-blank character and begins with neither '#' nor a   *)
(* list prefix, which strip(), split() and startswith() treat as a unit.   *)
(***************************************************************************)
EXTENDS Integers, Sequences, FiniteSets, TLC

(* ------------------------------------------------------------------ *)
(* Bounds                                                               *)
(* ------------------------------------------------------------------ *)
MaxChanges == 2
MaxDetChanges == 1
MaxNodes == 4
MaxFetchSchemas == 2
MaxFetchTables == 2
MaxScriptItems == 2
MaxGenerators == 2

(* ------------------------------------------------------------------ *)
(* Generic helpers                                                      *)
(* ------------------------------------------------------------------ *)
Absent == "<absent>"

Range(s) == {s[i] : i \in 1..Len(s)}

SeqsUpTo(S, n) == UNION {[1..k -> S] : k \in 0..n}

RECURSIVE Concat(_)
Concat(ss) == IF ss = <<>> THEN <<>> ELSE Head(ss) \o Concat(Tail(ss))

RECURSIVE Join(_, _)
Join(ss, sep) ==
    IF ss = <<>> THEN <<>>
    ELSE IF Len(ss) = 1 THEN ss[1]
    ELSE ss[1] \o sep \o Join(Tail(ss), sep)

(* ------------------------------------------------------------------ *)
(* Python str operations used by the change generator                   *)
(* ------------------------------------------------------------------ *)
IsSpace(c) == c \in {" ", "\n", "\t"}

RECURSIVE LStrip(_)
LStrip(s) == IF s # <<>> /\ IsSpace(Head(s)) THEN LStrip(Tail(s)) ELSE s

RECURSIVE RStrip(_)
RStrip(s) ==
    IF s # <<>> /\ IsSpace(s[Len(s)]) THEN RStrip(SubSeq(s, 1, Len(s) - 1)) ELSE s

Strip(s) == RStrip(LStrip(s))

RECURSIVE SplitFrom(_, _, _)
SplitFrom(s, sep, cur) ==
    IF s = <<>> THEN <<cur>>
    ELSE IF Head(s) = sep THEN <<cur>> \o SplitFrom(Tail(s), sep, <<>>)
    ELSE SplitFrom(Tail(s), sep, Append(cur, Head(s)))

Split(s, sep) == SplitFrom(s, sep, <<>>)

StartsWith(s, p) == Len(s) >= Len(p) /\ SubSeq(s, 1, Len(p)) = p

(* The bullet character U+2022, written as a name. *)
Bullet == "<bullet>"

ListPrefixes ==
    << <<"-", " ">>, <<"*", " ">>, <<Bullet, " ">>,
       <<"1", ".", " ">>, <<"2", ".", " ">>, <<"3", ".", " ">>,
       <<"4", ".", " ">>, <<"5", ".", " ">> >>

Placeholder == << "Schema changes needed (see SQL script for details)" >>

RECURSIVE CleanPrefix(_, _)
CleanPrefix(line, i) ==
    IF i > Len(ListPrefixes) THEN line
    ELSE IF StartsWith(line, ListPrefixes[i])
         THEN Strip(SubSeq(line, Len(ListPrefixes[i]) + 1, Len(line)))
         ELSE CleanPrefix(line, i + 1)

RECURSIVE ExtractLines(_)
ExtractLines(lines) ==
    IF lines = <<>> THEN <<>>
    ELSE LET line == Strip(Head(lines))
             rest == ExtractLines(Tail(lines))
         IN  IF line # <<>> /\ ~StartsWith(line, <<"#">>)
             THEN LET cleaned == CleanPrefix(line, 1)
                  IN  IF cleaned # <<>> THEN <<cleaned>> \o rest ELSE rest
             ELSE rest

(* An extraction that returns the surviving lines without a placeholder. *)
ExtractChangesListNoPlaceholder(changes_needed) ==
    ExtractLines(Split(Strip(changes_needed), "\n"))

ExtractChangesList(changes_needed) ==
    LET changes == ExtractLines(Split(Strip(changes_needed), "\n"))
    IN  IF changes # <<>> THEN changes ELSE <<Placeholder>>

(* ------------------------------------------------------------------ *)
(* Python dict and truthiness                                           *)
(* ------------------------------------------------------------------ *)
None == "<None>"

Get(d, k, default) == IF k \in DOMAIN d THEN d[k] ELSE default

Truthy(v) == v # None /\ v # Absent /\ v # ""

(* ------------------------------------------------------------------ *)
(* State                                                                *)
(* ------------------------------------------------------------------ *)
VARIABLES
    schema_def,         \* generate_changes argument: the SchemaDefinition
    current_state,      \* generate_changes argument: the CurrentState
    gpc,                \* position inside generate_changes
    request,            \* what the analyzer was called with
    analysis_result,    \* output of SchemaChangeAnalyzer
    sql_result,         \* output of SQLScriptGenerator
    validation_result,  \* output of SQLValidator
    change_script,      \* the ChangeScript returned
    gen_error,          \* the error generate_changes raised
    prev_changes,       \* changes returned by an earlier call on the same inputs
    log,                \* stages run so far, in order
    doc,                \* the schema document (the dict given to parse_dict)
    ppc,                \* position of the parser's caller
    parse_out,          \* what parse_dict returned or raised
    validate_out,       \* what validate_schema returned or raised
    cli_cmd,            \* the subcommand being run
    cli_opts,           \* its options
    cli_pc,             \* position inside the subcommand
    cli_error,          \* the error the CLI reported
    exit_code,          \* exit code of the process
    displayed,          \* the result panel printed
    shown_sql,          \* the SQL script printed
    output_file,        \* content of the --output file
    apply_outcome,      \* how apply ended after generate
    workspace,          \* what the Unity Catalog API answers
    fetch_args,         \* arguments of get_current_state
    fetch_out,          \* what get_current_state returned or raised
    api_calls,          \* API calls get_current_state issued, in order
    new_args,           \* class and keyword arguments of a model constructor
    instance,           \* the model instance built, or the error raised
    call_out,           \* result of a method called on the instance
    prompt_answer,      \* whether apply asked for confirmation, and the answer
    executed_sql,       \* statements passed to DatabricksClient.execute_sql
    dspy_settings,      \* dspy's process-wide settings (lm, max_retries)
    generators          \* per thread: a ChangeGenerator and its call's progress

vars == <<schema_def, current_state, gpc, request, analysis_result, sql_result,
          validation_result, change_script, gen_error, prev_changes, log,
          doc, ppc, parse_out, validate_out,
          cli_cmd, cli_opts, cli_pc, cli_error, exit_code, displayed, shown_sql,
          output_file, apply_outcome,
          workspace, fetch_args, fetch_out, api_calls,
          new_args, instance, call_out,
          prompt_answer, executed_sql, dspy_settings, generators>>

cliVars == <<cli_cmd, cli_opts, cli_pc, cli_error, exit_code, displayed, shown_sql,
             output_file, apply_outcome, prompt_answer, executed_sql>>

genVars == <<schema_def, current_state, gpc, request, analysis_result, sql_result,
             validation_result, change_script, gen_error, prev_changes>>

parseVars == <<doc, ppc, parse_out, validate_out>>

fetchVars == <<workspace, fetch_args, fetch_out, api_calls>>

modelVars == <<new_args, instance, call_out>>

threadVars == <<dspy_settings, generators>>

NoResult == [kind |-> "none"]

Running == -1

CliUnused ==
    /\ cli_cmd = "none"
    /\ cli_opts = NoResult
    /\ cli_pc = "unused"
    /\ cli_error = "none"
    /\ exit_code = Running
    /\ displayed = "nothing"
    /\ shown_sql = Absent
    /\ output_file = Absent
    /\ apply_outcome = "none"
    /\ prompt_answer = "not_asked"
    /\ executed_sql = <<>>

FetchUnused ==
    /\ workspace = NoResult
    /\ fetch_args = NoResult
    /\ fetch_out = NoResult
    /\ api_calls = <<>>

ModelsUnused ==
    /\ new_args = NoResult
    /\ instance = NoResult
    /\ call_out = NoResult

ThreadsUnused ==
    /\ dspy_settings = NoResult
    /\ generators = NoResult

(* ------------------------------------------------------------------ *)
(* Rendering of the two inputs for the language model                   *)
(* ------------------------------------------------------------------ *)
ColumnLines(column) ==
    << <<"Column", column.name, column.type,
         IF column.nullable THEN "NULL" ELSE "NOT NULL">> >>
    \o (IF Truthy(column.comment) THEN << <<"Comment", column.comment>> >> ELSE <<>>)

TableLines(table) ==
    << <<"Table", table.name, table.type>> >>
    \o (IF Truthy(table.comment) THEN << <<"Comment", table.comment>> >> ELSE <<>>)
    \o (IF Truthy(table.location) THEN << <<"Location", table.location>> >> ELSE <<>>)
    \o Concat([i \in 1..Len(table.columns) |-> ColumnLines(table.columns[i])])

SchemaLines(schema) ==
    << <<"Schema", schema.name>> >>
    \o (IF Truthy(schema.comment) THEN << <<"Comment", schema.comment>> >> ELSE <<>>)
    \o Concat([i \in 1..Len(schema.tables) |-> TableLines(schema.tables[i])])

SchemaDefToString(sd) ==
    << <<"Catalog", sd.catalog.name>> >>
    \o (IF Truthy(sd.catalog.comment) THEN << <<"Comment", sd.catalog.comment>> >> ELSE <<>>)
    \o Concat([i \in 1..Len(sd.schemas) |-> SchemaLines(sd.schemas[i])])

(* A dict is a sequence of <<key, value>> pairs in insertion order. *)
Keys(d) == {d[i][1] : i \in 1..Len(d)}

Lookup(d, k, default) ==
    IF k \in Keys(d) THEN d[CHOOSE i \in 1..Len(d) : d[i][1] = k][2] ELSE default

StateColumnLines(column) ==
    << <<"Column", column["name"],
         Get(column, "type_text", Get(column, "type_name", "UNKNOWN")),
         IF Get(column, "nullable", TRUE) THEN "NULL" ELSE "NOT NULL">> >>
    \o (IF Truthy(Get(column, "comment", None))
        THEN << <<"Comment", column["comment"]>> >> ELSE <<>>)

StateTableLines(table_name, table_info) ==
    LET columns == Get(table_info, "columns", <<>>)
    IN  << <<"Table", table_name, Get(table_info, "table_type", "UNKNOWN")>> >>
        \o (IF Truthy(Get(table_info, "comment", None))
            THEN << <<"Comment", table_info["comment"]>> >> ELSE <<>>)
        \o (IF Truthy(Get(table_info, "storage_location", None))
            THEN << <<"Location", table_info["storage_location"]>> >> ELSE <<>>)
        \o Concat([i \in 1..Len(columns) |-> StateColumnLines(columns[i])])

StateSchemaLines(cs, schema_name, schema_info) ==
    LET schema_tables == Lookup(cs.tables, schema_name, <<>>)
    IN  << <<"Schema", schema_name>> >>
        \o (IF Truthy(Get(schema_info, "comment", None))
            THEN << <<"Comment", schema_info["comment"]>> >> ELSE <<>>)
        \o Concat([i \in 1..Len(schema_tables) |->
                     StateTableLines(schema_tables[i][1], schema_tables[i][2])])

CurrentStateToString(cs) ==
    (IF cs.catalog_exists THEN << <<"Catalog exists">> >>
                          ELSE << <<"Catalog does not exist">> >>)
    \o Concat([i \in 1..Len(cs.schemas) |->
                 StateSchemaLines(cs, cs.schemas[i][1], cs.schemas[i][2])])

(* ------------------------------------------------------------------ *)
(* Inputs of generate_changes                                           *)
(* ------------------------------------------------------------------ *)
MkColumn(name, type, nullable) ==
    [name |-> name, type |-> type, nullable |-> nullable, comment |-> None]

MkTable(name, type, location, columns) ==
    [name |-> name, type |-> type, location |-> location, comment |-> None,
     columns |-> columns]

MkSchema(name, tables) == [name |-> name, comment |-> None, tables |-> tables]

MkSchemaDefinition(catalog_name, schemas) ==
    [catalog |-> [name |-> catalog_name, comment |-> None], schemas |-> schemas]

GenSchemaDefs ==
    { MkSchemaDefinition("c", <<>>),
      MkSchemaDefinition("c",
        << MkSchema("a", << MkTable("t", "MANAGED", None,
                                    << MkColumn("x", "BIGINT", FALSE) >>) >>) >>),
      MkSchemaDefinition("c",
        << MkSchema("a", << MkTable("t", "MANAGED", None,
                                    << MkColumn("x", "BIGINT", FALSE),
                                       MkColumn("y", "STRING", TRUE) >>) >>) >>) }

(* What the state fetcher reports for an environment that matches sd. *)
ColumnToDict(column) ==
    [name |-> column.name, type_text |-> column.type, type_name |-> column.type,
     nullable |-> column.nullable, comment |-> column.comment]

TableToDict(table) ==
    LET base == [name |-> table.name, table_type |-> table.type,
                 comment |-> table.comment]
        loc  == IF Truthy(table.location)
                THEN [storage_location |-> table.location] ELSE <<>>
        cols == IF table.columns # <<>>
                THEN [columns |-> [i \in 1..Len(table.columns) |->
                                     ColumnToDict(table.columns[i])]]
                ELSE <<>>
    IN  base @@ loc @@ cols

SchemaToDict(schema) == [name |-> schema.name, comment |-> schema.comment]

EmptyCurrentState ==
    [catalog_exists |-> FALSE, schemas |-> <<>>, tables |-> <<>>, volumes |-> <<>>]

AppliedState(sd) ==
    [catalog_exists |-> TRUE,
     schemas |-> [i \in 1..Len(sd.schemas) |->
                    <<sd.schemas[i].name, SchemaToDict(sd.schemas[i])>>],
     tables  |-> [i \in 1..Len(sd.schemas) |->
                    <<sd.schemas[i].name,
                      [j \in 1..Len(sd.schemas[i].tables) |->
                         <<sd.schemas[i].tables[j].name,
                           TableToDict(sd.schemas[i].tables[j])>>]>>],
     volumes |-> <<>>]

(* A state whose schema, table and column maps carry only the keys the
   renderer indexes directly; every key it reads with .get is missing. *)
SparseState ==
    [catalog_exists |-> TRUE,
     schemas |-> << <<"a", [name |-> "a"]>> >>,
     tables  |-> << <<"a", << <<"t", [name |-> "t",
                                      columns |-> << [name |-> "x"] >>]>>,
                              <<"u", [name |-> "u"]>> >> >> >>,
     volumes |-> <<>>]

GenCurrentStates ==
    {EmptyCurrentState, SparseState} \cup {AppliedState(sd) : sd \in GenSchemaDefs}

(* ------------------------------------------------------------------ *)
(* Answers of the language-model endpoint                               *)
(* ------------------------------------------------------------------ *)
ChangeWords ==
    { [text |-> "create catalog c", kind |-> "create_catalog", schema |-> "", table |-> ""],
      [text |-> "create schema a", kind |-> "create_schema", schema |-> "a", table |-> ""],
      [text |-> "create table a.t", kind |-> "create_table", schema |-> "a", table |-> "t"],
      [text |-> "add column x to a.t", kind |-> "add_column", schema |-> "a", table |-> "t"],
      [text |-> "drop column y from a.t", kind |-> "drop_column", schema |-> "a", table |-> "t"],
      [text |-> "alter column x of a.t set not null", kind |-> "alter_not_null",
       schema |-> "a", table |-> "t"] }

GenWords == {w.text : w \in ChangeWords}

(* Texts of at most n lines, one change per line, bulleted or not. *)
ChangeTexts(words, n) ==
    LET plain == {Join([i \in 1..Len(ws) |-> <<ws[i]>>], <<"\n">>) :
                    ws \in SeqsUpTo(words, n)}
        bulleted == {Join([i \in 1..Len(ws) |-> <<"-", " ", ws[i]>>], <<"\n">>) :
                       ws \in SeqsUpTo(words, n)}
    IN  plain \cup bulleted

GenTexts == ChangeTexts(GenWords, MaxChanges)

SqlScripts == {"SQL"}
SqlWarnings == {"", "check data before applying"}
IsValidAnswers == {"true", "false", "False"}
CorrectedSqls == {"", "SQL fixed"}
ValidationIssues == {"issues"}

(* A prediction is a function from the output fields it carries. *)
Optional(field, values) == {<<>>} \cup {[f \in {field} |-> v] : v \in values}

SqlResults ==
    {[sql_script |-> q] @@ w : q \in SqlScripts, w \in Optional("warnings", SqlWarnings)}

ValidationResults ==
    {v @@ c @@ i : v \in Optional("is_valid", IsValidAnswers),
                   c \in Optional("corrected_sql", CorrectedSqls),
                   i \in Optional("validation_issues", ValidationIssues)}

HasAttr(prediction, field) == field \in DOMAIN prediction

(* ------------------------------------------------------------------ *)
(* Schema documents                                                     *)
(* A document dict is a function whose domain is the set of keys        *)
(* present.                                                             *)
(* ------------------------------------------------------------------ *)
EmptyDoc == [schemas |-> <<>>]

CatalogForms == {"c"}

SchemaForms ==
    {[tables |-> <<>>]} \cup {[name |-> n, tables |-> <<>>] : n \in {"", "a", "b"}}

TypeLocForms ==
    { <<>>,
      [type |-> "EXTERNAL"],
      [type |-> "EXTERNAL", location |-> ""],
      [type |-> "EXTERNAL", location |-> "loc"] }

TableForms ==
    {[columns |-> <<>>], [name |-> "", columns |-> <<>>]}
    \cup {[name |-> n, columns |-> <<>>] @@ tl : n \in {"a", "b"}, tl \in TypeLocForms}

ColumnForms ==
    {[str |-> "a"], [type |-> "STRING"], [name |-> "a"]}
    \cup {[name |-> n, type |-> "STRING"] : n \in {"", "a", "b", " a"}}

RECURSIVE SumSeq(_)
SumSeq(ns) == IF ns = <<>> THEN 0 ELSE Head(ns) + SumSeq(Tail(ns))

TableCount(d) == SumSeq([i \in 1..Len(d.schemas) |-> Len(d.schemas[i].tables)])

ColumnCount(d) ==
    SumSeq([i \in 1..Len(d.schemas) |->
              SumSeq([j \in 1..Len(d.schemas[i].tables) |->
                        Len(d.schemas[i].tables[j].columns)])])

NodeCount(d) == Len(d.schemas) + TableCount(d) + ColumnCount(d)

(* ------------------------------------------------------------------ *)
(* Model construction (pydantic)                                        *)
(* ------------------------------------------------------------------ *)
(* str.strip() on the names that occur *)
StripName(n) ==
    CASE n = " "  -> ""
      [] n = " a" -> "a"
      [] n = "a " -> "a"
      [] OTHER    -> n

Ok(v) == [kind |-> "ok", value |-> v]

Raise(kind, msg) == [kind |-> kind, msg |-> msg]

NameInvalid(v) == ~Truthy(v) \/ ~Truthy(StripName(v))

(* Column(...): validate_name *)
NewColumn(d) ==
    IF NameInvalid(d.name)
    THEN Raise("PydanticError", <<"Column name cannot be empty">>)
    ELSE Ok([name |-> StripName(d.name), type |-> d.type,
             nullable |-> Get(d, "nullable", TRUE),
             comment |-> Get(d, "comment", None)])

TableTypes == {"EXTERNAL", "MANAGED", "VIEW", "MATERIALIZED_VIEW"}

(* Table(...): validate_name, the TableType enum, then validate_location,
   which runs only when a location is given and sees the type only when
   the type was valid; field errors are reported together. *)
NewTable(d) ==
    LET type == Get(d, "type", "MANAGED")
        name_errors ==
            IF NameInvalid(d.name) THEN <<"Table name cannot be empty">> ELSE <<>>
        type_errors ==
            IF type \notin TableTypes THEN <<"Input should be a TableType">> ELSE <<>>
        location_errors ==
            IF "location" \in DOMAIN d /\ type = "EXTERNAL" /\ ~Truthy(d.location)
            THEN <<"External tables must specify a location">> ELSE <<>>
        errors == name_errors \o type_errors \o location_errors
    IN  IF errors # <<>>
        THEN Raise("PydanticError", errors)
        ELSE Ok([name |-> StripName(d.name), type |-> type,
                 location |-> Get(d, "location", None),
                 comment |-> Get(d, "comment", None),
                 columns |-> d.columns])

(* Schema(...): validate_name *)
NewSchema(d) ==
    IF NameInvalid(d.name)
    THEN Raise("PydanticError", <<"Schema name cannot be empty">>)
    ELSE Ok([name |-> StripName(d.name), comment |-> Get(d, "comment", None),
             tables |-> d.tables])

(* Catalog(name=...): validate_name *)
NewCatalog(name) ==
    IF NameInvalid(name)
    THEN Raise("PydanticError", <<"Catalog name cannot be empty">>)
    ELSE Ok([name |-> StripName(name), comment |-> None])

(* ------------------------------------------------------------------ *)
(* SchemaParser.parse_dict                                              *)
(* ------------------------------------------------------------------ *)
Failed(results) == {i \in 1..Len(results) : results[i].kind # "ok"}

(* The loop stops at the first item that raises. *)
FirstFailure(results) ==
    results[CHOOSE i \in Failed(results) : \A j \in Failed(results) : i <= j]

(* Collecting the parsed children in reverse. *)
ValuesReversed(results) ==
    [i \in 1..Len(results) |-> results[Len(results) + 1 - i].value]

Values(results) == [i \in 1..Len(results) |-> results[i].value]

ParseColumn(column_data) ==
    IF "str" \in DOMAIN column_data
    THEN NewColumn([name |-> column_data.str, type |-> "STRING"])
    ELSE IF "name" \notin DOMAIN column_data
    THEN Raise("ValidationError", <<"Column must have a 'name' field">>)
    ELSE IF "type" \notin DOMAIN column_data
    THEN Raise("ValidationError", <<"Column must have a 'type' field", column_data.name>>)
    ELSE NewColumn(column_data)

ParseTable(table_data) ==
    IF "name" \notin DOMAIN table_data
    THEN Raise("ValidationError", <<"Table must have a 'name' field">>)
    ELSE LET columns == [i \in 1..Len(table_data.columns) |->
                           ParseColumn(table_data.columns[i])]
         IN  IF Failed(columns) # {} THEN FirstFailure(columns)
             ELSE NewTable([table_data EXCEPT !.columns = Values(columns)])

ParseSchema(schema_data) ==
    IF "name" \notin DOMAIN schema_data
    THEN Raise("ValidationError", <<"Schema must have a 'name' field">>)
    ELSE LET tables == [i \in 1..Len(schema_data.tables) |->
                          ParseTable(schema_data.tables[i])]
         IN  IF Failed(tables) # {} THEN FirstFailure(tables)
             ELSE NewSchema([schema_data EXCEPT !.tables = Values(tables)])

ParseDictInner(data) ==
    IF "catalog" \notin DOMAIN data
    THEN Raise("ValidationError", <<"Schema definition must include 'catalog'">>)
    ELSE LET catalog == NewCatalog(data.catalog)
             schemas == [i \in 1..Len(data.schemas) |-> ParseSchema(data.schemas[i])]
         IN  IF catalog.kind # "ok" THEN catalog
             ELSE IF Failed(schemas) # {} THEN FirstFailure(schemas)
             ELSE Ok([catalog |-> catalog.value, schemas |-> Values(schemas)])

(* A parse_dict without the `except ValidationError: raise` clause. *)
ParseDictWrapsAll(data) ==
    LET r == ParseDictInner(data)
    IN  IF r.kind # "ok"
        THEN Raise("SchemaParsingError", <<"Failed to parse schema definition">> \o r.msg)
        ELSE r

(* except ValidationError: raise; except Exception: raise SchemaParsingError *)
ParseDict(data) ==
    LET r == ParseDictInner(data)
    IN  IF r.kind = "PydanticError"
        THEN Raise("SchemaParsingError", <<"Failed to parse schema definition">> \o r.msg)
        ELSE r

(* ------------------------------------------------------------------ *)
(* SchemaParser.validate_schema                                         *)
(* ------------------------------------------------------------------ *)
HasDuplicates(names) == Len(names) # Cardinality(Range(names))

Names(items) == [i \in 1..Len(items) |-> items[i].name]

(* A validator that tests the location against "" only. *)
TableErrorsEmptyStringOnly(schema, table) ==
    (IF HasDuplicates(Names(table.columns))
     THEN << <<"Duplicate column names in table", schema.name, table.name>> >>
     ELSE <<>>)
    \o (IF table.type = "EXTERNAL" /\ table.location = ""
        THEN << <<"External table must specify a location", schema.name, table.name>> >>
        ELSE <<>>)

TableErrors(schema, table) ==
    (IF HasDuplicates(Names(table.columns))
     THEN << <<"Duplicate column names in table", schema.name, table.name>> >>
     ELSE <<>>)
    \o (IF table.type = "EXTERNAL" /\ ~Truthy(table.location)
        THEN << <<"External table must specify a location", schema.name, table.name>> >>
        ELSE <<>>)

(* A validator that gives up on a schema at its first error. *)
SchemaErrorsStopAtFirst(schema) ==
    LET all == (IF HasDuplicates(Names(schema.tables))
                THEN << <<"Duplicate table names in schema", schema.name>> >>
                ELSE <<>>)
               \o Concat([i \in 1..Len(schema.tables) |->
                            TableErrors(schema, schema.tables[i])])
    IN  IF all = <<>> THEN <<>> ELSE <<all[1]>>

SchemaErrors(schema) ==
    (IF HasDuplicates(Names(schema.tables))
     THEN << <<"Duplicate table names in schema", schema.name>> >>
     ELSE <<>>)
    \o Concat([i \in 1..Len(schema.tables) |-> TableErrors(schema, schema.tables[i])])

ValidationErrors(sd) ==
    (IF HasDuplicates(Names(sd.schemas))
     THEN << <<"Duplicate schema names found">> >>
     ELSE <<>>)
    \o Concat([i \in 1..Len(sd.schemas) |-> SchemaErrors(sd.schemas[i])])

ValidateSchema(sd) ==
    LET errors == ValidationErrors(sd)
    IN  IF errors # <<>>
        THEN Raise("ValidationError", errors)
        ELSE [kind |-> "ok"]

(* str.lower() on the answers of the validator *)
Lower(s) ==
    CASE s = "False" -> "false"
      [] s = "FALSE" -> "false"
      [] s = "True"  -> "true"
      [] OTHER       -> s

(* ------------------------------------------------------------------ *)
(* ChangeGenerator.generate_changes                                     *)
(* ------------------------------------------------------------------ *)
Logged(stage, outcome) == Append(log, <<stage, outcome>>)

(* Step 1: render both inputs and ask the analyzer. *)
AnalyzeOk(texts) ==
    /\ gpc = "start"
    /\ \E changes_needed \in texts :
         analysis_result' = [kind |-> "analysis", analysis |-> "analysis",
                             changes_needed |-> changes_needed]
    /\ request' = [desired_schema |-> SchemaDefToString(schema_def),
                   current_state  |-> CurrentStateToString(current_state),
                   catalog_name   |-> schema_def.catalog.name,
                   schema_name    |-> ""]
    /\ gpc' = "analyzed"
    /\ log' = Logged("analyze", "ok")
    /\ UNCHANGED <<schema_def, current_state, sql_result, validation_result,
                   change_script, gen_error, prev_changes>>
    /\ UNCHANGED parseVars
    /\ UNCHANGED cliVars
    /\ UNCHANGED fetchVars
    /\ UNCHANGED modelVars
    /\ UNCHANGED threadVars

(* Step 2: ask the SQL generator. *)
GenerateSqlOk ==
    /\ gpc = "analyzed"
    /\ \E result \in SqlResults : sql_result' = result
    /\ gpc' = "generated"
    /\ log' = Logged("sqlgen", "ok")
    /\ UNCHANGED <<schema_def, current_state, request, analysis_result,
                   validation_result, change_script, gen_error, prev_changes>>
    /\ UNCHANGED parseVars
    /\ UNCHANGED cliVars
    /\ UNCHANGED fetchVars
    /\ UNCHANGED modelVars
    /\ UNCHANGED threadVars

FoundIssues(validation) ==
    HasAttr(validation, "is_valid") /\ Lower(validation.is_valid) = "false"

(* A selection that takes the corrected SQL whenever the validator gave one. *)
FinalSqlWheneverCorrected(sql, validation) ==
    IF HasAttr(validation, "corrected_sql") /\ Truthy(validation.corrected_sql)
    THEN validation.corrected_sql
    ELSE sql.sql_script

FinalSql(sql, validation) ==
    IF /\ FoundIssues(validation)
       /\ HasAttr(validation, "corrected_sql")
       /\ Truthy(validation.corrected_sql)
    THEN validation.corrected_sql
    ELSE sql.sql_script

FinalWarnings(sql, validation) ==
    (IF FoundIssues(validation) /\ HasAttr(validation, "validation_issues")
     THEN << <<"SQL validation issues", validation.validation_issues>> >>
     ELSE <<>>)
    \o (IF HasAttr(sql, "warnings") /\ Truthy(sql.warnings)
        THEN << sql.warnings >> ELSE <<>>)

(* Step 3: ask the validator, then assemble and return the ChangeScript. *)
ValidateSqlOk ==
    /\ gpc = "generated"
    /\ \E validation \in ValidationResults :
             /\ validation_result' = validation
             /\ change_script' =
                  [kind |-> "ChangeScript",
                   sql |-> FinalSql(sql_result, validation),
                   changes |-> ExtractChangesList(analysis_result.changes_needed),
                   warnings |-> FinalWarnings(sql_result, validation)]
    /\ gpc' = "returned"
    /\ log' = Logged("sqlvalidate", "ok")
    /\ UNCHANGED <<schema_def, current_state, request, analysis_result,
                   sql_result, gen_error, prev_changes>>
    /\ UNCHANGED parseVars
    /\ UNCHANGED cliVars
    /\ UNCHANGED fetchVars
    /\ UNCHANGED modelVars
    /\ UNCHANGED threadVars

StageOf(pc) ==
    CASE pc = "start"     -> "analyze"
      [] pc = "analyzed"  -> "sqlgen"
      [] pc = "generated" -> "sqlvalidate"

(* A call of the endpoint fails: basic_request raises and generate_changes
   re-raises it as ChangeGenerationError. *)
LlmFails ==
    /\ gpc \in {"start", "analyzed", "generated"}
    /\ gpc' = "raised"
    /\ gen_error' = "ChangeGenerationError"
    /\ log' = Logged(StageOf(gpc), "failed")
    /\ UNCHANGED <<schema_def, current_state, request, analysis_result,
                   sql_result, validation_result, change_script, prev_changes>>
    /\ UNCHANGED parseVars
    /\ UNCHANGED cliVars
    /\ UNCHANGED fetchVars
    /\ UNCHANGED modelVars
    /\ UNCHANGED threadVars

(* The caller invokes generate_changes once more with the same arguments. *)
CallAgain ==
    /\ gpc = "returned"
    /\ prev_changes = <<>>
    /\ prev_changes' = <<change_script.changes>>
    /\ gpc' = "start"
    /\ request' = NoResult
    /\ analysis_result' = NoResult
    /\ sql_result' = NoResult
    /\ validation_result' = NoResult
    /\ change_script' = NoResult
    /\ log' = <<>>
    /\ UNCHANGED <<schema_def, current_state, gen_error>>
    /\ UNCHANGED parseVars
    /\ UNCHANGED cliVars
    /\ UNCHANGED fetchVars
    /\ UNCHANGED modelVars
    /\ UNCHANGED threadVars

Analyze == AnalyzeOk(GenTexts)

InitGen ==
    /\ schema_def \in GenSchemaDefs
    /\ current_state \in GenCurrentStates
    /\ gpc = "start"
    /\ request = NoResult
    /\ analysis_result = NoResult
    /\ sql_result = NoResult
    /\ validation_result = NoResult
    /\ change_script = NoResult
    /\ gen_error = "none"
    /\ prev_changes = <<>>
    /\ log = <<>>
    /\ doc = EmptyDoc
    /\ ppc = "unused"
    /\ parse_out = NoResult
    /\ validate_out = NoResult
    /\ CliUnused
    /\ FetchUnused
    /\ ModelsUnused
    /\ ThreadsUnused

NextGen == Analyze \/ GenerateSqlOk \/ ValidateSqlOk \/ LlmFails

SpecGen == InitGen /\ [][NextGen]_vars

(* Two calls on the same arguments, for comparing their results. *)
DetWords == {"create schema a"}

DetTexts == ChangeTexts(DetWords, MaxDetChanges)

AnalyzeDet == AnalyzeOk(DetTexts)

NextDet == AnalyzeDet \/ GenerateSqlOk \/ ValidateSqlOk \/ LlmFails \/ CallAgain

SpecDet == InitGen /\ [][NextDet]_vars

(* ------------------------------------------------------------------ *)
(* Reading a change list                                                *)
(* ------------------------------------------------------------------ *)
KindOf(entry) ==
    IF Len(entry) = 1 /\ \E w \in ChangeWords : w.text = entry[1]
    THEN (CHOOSE w \in ChangeWords : w.text = entry[1]).kind
    ELSE "other"

WordOf(entry) == CHOOSE w \in ChangeWords : w.text = entry[1]

Returned == gpc = "returned"

Changes == change_script.changes

Warnings == change_script.warnings

(* ------------------------------------------------------------------ *)
(* Properties of generate_changes                                       *)
(* ------------------------------------------------------------------ *)

(* C1: when the current state is the one that results from applying the
   schema definition, the returned script has no changes and no warnings. *)
C1_NoOpWhenIdentical ==
    (Returned /\ current_state = AppliedState(schema_def))
        => (Changes = <<>> /\ Warnings = <<>>)

(* C2: when the catalog does not exist the change list is exactly the one
   "create catalog" change and there are no warnings. *)
C2_CatalogShortCircuit ==
    (Returned /\ ~current_state.catalog_exists)
        => /\ Len(Changes) = 1
           /\ KindOf(Changes[1]) = "create_catalog"
           /\ Warnings = <<>>

(* C3: "create schema X" comes before every "create table in X", and the
   "add column" changes of a table come before its "drop column" changes. *)
C3_DependencyOrder ==
    Returned =>
        \A i, j \in 1..Len(Changes) :
            LET ki == KindOf(Changes[i])
                kj == KindOf(Changes[j])
            IN  /\ (/\ ki = "create_schema" /\ kj = "create_table"
                    /\ WordOf(Changes[i]).schema = WordOf(Changes[j]).schema)
                       => i < j
                /\ (/\ ki = "add_column" /\ kj = "drop_column"
                    /\ WordOf(Changes[i]).schema = WordOf(Changes[j]).schema
                    /\ WordOf(Changes[i]).table = WordOf(Changes[j]).table)
                       => i < j

(* C4: a change list with a "drop column" or a nullable to non-nullable
   "alter column" is never returned with an empty warnings list. *)
C4_DestructiveFlagged ==
    (Returned /\ \E i \in 1..Len(Changes) :
                    KindOf(Changes[i]) \in {"drop_column", "alter_not_null"})
        => Warnings # <<>>

(* C5: a second call with the same schema definition and current state
   returns the same ordered change list as the first. *)
C5_Deterministic ==
    (Returned /\ prev_changes # <<>>) => Changes = prev_changes[1]

(* ------------------------------------------------------------------ *)
(* Parsing and validating a document (as the tests drive the parser)    *)
(* ------------------------------------------------------------------ *)
LastSchema == Len(doc.schemas)

LastTable == Len(doc.schemas[LastSchema].tables)

(* The author of the document writes its next schema, table or column. *)
DocSetCatalog ==
    /\ ppc = "writing"
    /\ "catalog" \notin DOMAIN doc
    /\ doc.schemas = <<>>
    /\ \E c \in CatalogForms : doc' = doc @@ [catalog |-> c]
    /\ UNCHANGED <<ppc, parse_out, validate_out, log>>
    /\ UNCHANGED genVars
    /\ UNCHANGED cliVars
    /\ UNCHANGED fetchVars
    /\ UNCHANGED modelVars
    /\ UNCHANGED threadVars

DocAddSchema ==
    /\ ppc = "writing"
    /\ NodeCount(doc) < MaxNodes
    /\ \E sf \in SchemaForms :
         doc' = [doc EXCEPT !.schemas = Append(@, sf)]
    /\ UNCHANGED <<ppc, parse_out, validate_out, log>>
    /\ UNCHANGED genVars
    /\ UNCHANGED cliVars
    /\ UNCHANGED fetchVars
    /\ UNCHANGED modelVars
    /\ UNCHANGED threadVars

DocAddTable ==
    /\ ppc = "writing"
    /\ NodeCount(doc) < MaxNodes
    /\ doc.schemas # <<>>
    /\ \E tf \in TableForms :
         doc' = [doc EXCEPT !.schemas[LastSchema].tables = Append(@, tf)]
    /\ UNCHANGED <<ppc, parse_out, validate_out, log>>
    /\ UNCHANGED genVars
    /\ UNCHANGED cliVars
    /\ UNCHANGED fetchVars
    /\ UNCHANGED modelVars
    /\ UNCHANGED threadVars

DocAddColumn ==
    /\ ppc = "writing"
    /\ NodeCount(doc) < MaxNodes
    /\ doc.schemas # <<>>
    /\ doc.schemas[LastSchema].tables # <<>>
    /\ \E cf \in ColumnForms :
         doc' = [doc EXCEPT !.schemas[LastSchema].tables[LastTable].columns =
                                Append(@, cf)]
    /\ UNCHANGED <<ppc, parse_out, validate_out, log>>
    /\ UNCHANGED genVars
    /\ UNCHANGED cliVars
    /\ UNCHANGED fetchVars
    /\ UNCHANGED modelVars
    /\ UNCHANGED threadVars

(* parser.parse_dict(schema_data) *)
CallParseDict ==
    /\ ppc = "writing"
    /\ parse_out' = ParseDict(doc)
    /\ ppc' = "parsed"
    /\ log' = Logged("parse_dict", IF ParseDict(doc).kind = "ok" THEN "ok" ELSE "failed")
    /\ UNCHANGED <<doc, validate_out>>
    /\ UNCHANGED genVars
    /\ UNCHANGED cliVars
    /\ UNCHANGED fetchVars
    /\ UNCHANGED modelVars
    /\ UNCHANGED threadVars

(* parser.validate_schema(schema_def) *)
CallValidateSchema ==
    /\ ppc = "parsed"
    /\ parse_out.kind = "ok"
    /\ validate_out' = ValidateSchema(parse_out.value)
    /\ ppc' = "validated"
    /\ log' = Logged("validate_schema",
                     IF ValidateSchema(parse_out.value).kind = "ok" THEN "ok" ELSE "failed")
    /\ UNCHANGED <<doc, parse_out>>
    /\ UNCHANGED genVars
    /\ UNCHANGED cliVars
    /\ UNCHANGED fetchVars
    /\ UNCHANGED modelVars
    /\ UNCHANGED threadVars

InitParse ==
    /\ doc = EmptyDoc
    /\ ppc = "writing"
    /\ parse_out = NoResult
    /\ validate_out = NoResult
    /\ schema_def = NoResult
    /\ current_state = NoResult
    /\ gpc = "idle"
    /\ request = NoResult
    /\ analysis_result = NoResult
    /\ sql_result = NoResult
    /\ validation_result = NoResult
    /\ change_script = NoResult
    /\ gen_error = "none"
    /\ prev_changes = <<>>
    /\ log = <<>>
    /\ CliUnused
    /\ FetchUnused
    /\ ModelsUnused
    /\ ThreadsUnused

NextParse ==
    \/ DocSetCatalog \/ DocAddSchema \/ DocAddTable \/ DocAddColumn
    \/ CallParseDict \/ CallValidateSchema

SpecParse == InitParse /\ [][NextParse]_vars

(* ------------------------------------------------------------------ *)
(* SchemaParser.parse_file                                              *)
(* ------------------------------------------------------------------ *)
InvalidYaml == [yaml_error |-> TRUE]

(* except yaml.YAMLError / except Exception: both raise SchemaParsingError *)
ParseFile(file) ==
    IF "yaml_error" \in DOMAIN file
    THEN Raise("SchemaParsingError", <<"Invalid YAML">>)
    ELSE LET r == ParseDict(file)
         IN  IF r.kind = "ok" THEN r
             ELSE Raise("SchemaParsingError", <<"Failed to parse schema file">> \o r.msg)

(* ------------------------------------------------------------------ *)
(* The CLI: generate and apply                                          *)
(* ------------------------------------------------------------------ *)
CliFiles ==
    { InvalidYaml,
      [schemas |-> <<>>],
      [catalog |-> "c", schemas |-> <<>>],
      [catalog |-> "c", schemas |-> << [name |-> "a", tables |-> <<>>] >>],
      [catalog |-> "c", schemas |-> << [name |-> "a", tables |-> <<>>],
                                       [name |-> "a", tables |-> <<>>] >>],
      [catalog |-> "c",
       schemas |-> << [name |-> "a",
                       tables |-> << [name |-> "t", type |-> "EXTERNAL",
                                      columns |-> <<>>] >>] >>] }

CliOptions ==
    [output : {Absent, "out.sql"}, dry_run : BOOLEAN, verbose : BOOLEAN,
     auto_approve : BOOLEAN]

(* the error is printed and sys.exit(1) ends the process *)
CliFail(stage, error) ==
    /\ cli_error' = error
    /\ exit_code' = 1
    /\ cli_pc' = "exited"
    /\ log' = Logged(stage, "failed")

CliStep(stage, next_pc) ==
    /\ cli_pc' = next_pc
    /\ log' = Logged(stage, "ok")
    /\ UNCHANGED <<cli_error, exit_code>>

(* cli(): Config.load *)
CliLoadConfig ==
    /\ cli_pc = "start"
    /\ \/ CliStep("config", "configured")
       \/ CliFail("config", "ConfigurationError")
    /\ UNCHANGED <<cli_cmd, cli_opts, displayed, shown_sql, output_file,
                   apply_outcome, prompt_answer, executed_sql>>
    /\ UNCHANGED genVars
    /\ UNCHANGED parseVars
    /\ UNCHANGED fetchVars
    /\ UNCHANGED modelVars
    /\ UNCHANGED threadVars

UsageErrorExit == 2

(* click parses the subcommand's options after the group callback and
   before the subcommand's body: a required option that is missing, or a
   --schema-file path that does not exist, is reported as a usage error
   and the process ends with click's exit code for usage errors *)
CliParseOptions ==
    /\ cli_pc = "configured"
    /\ \/ /\ cli_pc' = "accepted"
          /\ UNCHANGED <<cli_error, exit_code>>
       \/ /\ cli_error' = "UsageError"
          /\ exit_code' = UsageErrorExit
          /\ cli_pc' = "exited"
    /\ UNCHANGED <<cli_cmd, cli_opts, displayed, shown_sql, output_file,
                   apply_outcome, prompt_answer, executed_sql, log>>
    /\ UNCHANGED genVars
    /\ UNCHANGED parseVars
    /\ UNCHANGED fetchVars
    /\ UNCHANGED modelVars
    /\ UNCHANGED threadVars

(* generate() and validate(): parser.parse_file(schema_file); validate
   prints its summary and returns *)
CliParseFile ==
    /\ cli_pc = "accepted"
    /\ parse_out' = ParseFile(doc)
    /\ IF ParseFile(doc).kind = "ok"
       THEN CliStep("parse", IF cli_cmd = "validate" THEN "finished" ELSE "parsed")
       ELSE CliFail("parse", ParseFile(doc).kind)
    /\ UNCHANGED <<cli_cmd, cli_opts, displayed, shown_sql, output_file,
                   apply_outcome, prompt_answer, executed_sql>>
    /\ UNCHANGED <<doc, ppc, validate_out>>
    /\ UNCHANGED genVars
    /\ UNCHANGED fetchVars
    /\ UNCHANGED modelVars
    /\ UNCHANGED threadVars

(* generate(): DatabricksClient(config) *)
CliConnect ==
    /\ cli_pc = "parsed"
    /\ \/ CliStep("connect", "connected")
       \/ CliFail("connect", "DatabricksConnectionError")
    /\ UNCHANGED <<cli_cmd, cli_opts, displayed, shown_sql, output_file,
                   apply_outcome, prompt_answer, executed_sql>>
    /\ UNCHANGED genVars
    /\ UNCHANGED parseVars
    /\ UNCHANGED fetchVars
    /\ UNCHANGED modelVars
    /\ UNCHANGED threadVars

(* generate(): databricks_client.get_current_state(target_catalog, target_schema) *)
CliInspect ==
    /\ cli_pc = "connected"
    /\ \/ /\ \E cs \in GenCurrentStates : current_state' = cs
          /\ CliStep("inspect", "inspected")
       \/ /\ CliFail("inspect", "DatabricksConnectionError")
          /\ UNCHANGED current_state
    /\ UNCHANGED <<cli_cmd, cli_opts, displayed, shown_sql, output_file,
                   apply_outcome, prompt_answer, executed_sql>>
    /\ UNCHANGED <<schema_def, gpc, request, analysis_result, sql_result,
                   validation_result, change_script, gen_error, prev_changes>>
    /\ UNCHANGED parseVars
    /\ UNCHANGED fetchVars
    /\ UNCHANGED modelVars
    /\ UNCHANGED threadVars

(* generate(): ChangeGenerator(config, databricks_client), then the call of
   generate_changes(schema_def, current_state) begins *)
CliNewGenerator ==
    /\ cli_pc = "inspected"
    /\ \/ /\ schema_def' = parse_out.value
          /\ gpc' = "start"
          /\ CliStep("construct", "generating")
       \/ /\ CliFail("construct", "Exception")
          /\ UNCHANGED <<schema_def, gpc>>
    /\ UNCHANGED <<cli_cmd, cli_opts, displayed, shown_sql, output_file,
                   apply_outcome, prompt_answer, executed_sql>>
    /\ UNCHANGED <<current_state, request, analysis_result, sql_result,
                   validation_result, change_script, gen_error, prev_changes>>
    /\ UNCHANGED parseVars
    /\ UNCHANGED fetchVars
    /\ UNCHANGED modelVars
    /\ UNCHANGED threadVars

(* A has_changes that also counts warnings. *)
HasChangesOrWarnings(script) == script.changes # <<>> \/ script.warnings # <<>>

HasChanges(script) == script.changes # <<>>

(* A generate() that prints the result panel before reporting the error. *)
CliGenerateFailedStillDisplays ==
    /\ cli_pc = "generating"
    /\ gpc = "raised"
    /\ cli_error' = gen_error
    /\ exit_code' = 1
    /\ cli_pc' = "exited"
    /\ displayed' = "no_changes"
    /\ UNCHANGED <<cli_cmd, cli_opts, shown_sql, output_file, apply_outcome,
                   prompt_answer, executed_sql, log>>
    /\ UNCHANGED genVars
    /\ UNCHANGED parseVars
    /\ UNCHANGED fetchVars
    /\ UNCHANGED modelVars
    /\ UNCHANGED threadVars

(* generate(): generate_changes raised *)
CliGenerateFailed ==
    /\ cli_pc = "generating"
    /\ gpc = "raised"
    /\ cli_error' = gen_error
    /\ exit_code' = 1
    /\ cli_pc' = "exited"
    /\ UNCHANGED <<cli_cmd, cli_opts, displayed, shown_sql, output_file,
                   apply_outcome, prompt_answer, executed_sql, log>>
    /\ UNCHANGED genVars
    /\ UNCHANGED parseVars
    /\ UNCHANGED fetchVars
    /\ UNCHANGED modelVars
    /\ UNCHANGED threadVars

AfterGenerate == IF cli_cmd = "apply" THEN "confirm" ELSE "finished"

(* generate(): display the result and write the output file *)
CliDisplay ==
    /\ cli_pc = "generating"
    /\ gpc = "returned"
    /\ IF HasChanges(change_script)
       THEN /\ displayed' = "changes"
            /\ shown_sql' = IF cli_opts.verbose \/ cli_opts.dry_run
                            THEN change_script.sql ELSE shown_sql
            /\ IF cli_opts.output # Absent
               THEN \/ /\ output_file' = change_script.sql
                       /\ cli_pc' = AfterGenerate
                       /\ UNCHANGED <<cli_error, exit_code>>
                    \/ /\ cli_error' = "OSError"
                       /\ exit_code' = 1
                       /\ cli_pc' = "exited"
                       /\ UNCHANGED output_file
               ELSE /\ cli_pc' = AfterGenerate
                    /\ UNCHANGED <<cli_error, exit_code, output_file>>
       ELSE /\ displayed' = "no_changes"
            /\ cli_pc' = AfterGenerate
            /\ UNCHANGED <<cli_error, exit_code, shown_sql, output_file>>
    /\ UNCHANGED <<cli_cmd, cli_opts, apply_outcome, prompt_answer, executed_sql, log>>
    /\ UNCHANGED genVars
    /\ UNCHANGED parseVars
    /\ UNCHANGED fetchVars
    /\ UNCHANGED modelVars
    /\ UNCHANGED threadVars

(* An apply that runs the generated script whatever the answer was. *)
CliConfirmExecutesAnyway ==
    /\ cli_pc = "confirm"
    /\ \E confirmed \in BOOLEAN :
         /\ prompt_answer' = IF cli_opts.auto_approve THEN "not_asked"
                             ELSE IF confirmed THEN "yes" ELSE "no"
         /\ apply_outcome' = IF cli_opts.auto_approve \/ confirmed
                             THEN "not_implemented" ELSE "aborted"
    /\ executed_sql' = Append(executed_sql, change_script.sql)
    /\ cli_pc' = "finished"
    /\ UNCHANGED <<cli_cmd, cli_opts, cli_error, exit_code, displayed, shown_sql,
                   output_file, log>>
    /\ UNCHANGED genVars
    /\ UNCHANGED parseVars
    /\ UNCHANGED fetchVars
    /\ UNCHANGED modelVars
    /\ UNCHANGED threadVars

(* apply(): after generate returned, ask for confirmation unless
   --auto-approve; a declined confirmation prints "Aborted." and returns;
   otherwise "not yet implemented" is printed: execute_sql is not called *)
CliConfirm ==
    /\ cli_pc = "confirm"
    /\ \E confirmed \in BOOLEAN :
         /\ prompt_answer' = IF cli_opts.auto_approve THEN "not_asked"
                             ELSE IF confirmed THEN "yes" ELSE "no"
         /\ apply_outcome' = IF cli_opts.auto_approve \/ confirmed
                             THEN "not_implemented" ELSE "aborted"
    /\ cli_pc' = "finished"
    /\ UNCHANGED <<cli_cmd, cli_opts, cli_error, exit_code, displayed, shown_sql,
                   output_file, executed_sql, log>>
    /\ UNCHANGED genVars
    /\ UNCHANGED parseVars
    /\ UNCHANGED fetchVars
    /\ UNCHANGED modelVars
    /\ UNCHANGED threadVars

(* the command returns *)
CliExit ==
    /\ cli_pc = "finished"
    /\ exit_code' = 0
    /\ cli_pc' = "exited"
    /\ UNCHANGED <<cli_cmd, cli_opts, cli_error, displayed, shown_sql,
                   output_file, apply_outcome, prompt_answer, executed_sql,
                   log>>
    /\ UNCHANGED genVars
    /\ UNCHANGED parseVars
    /\ UNCHANGED fetchVars
    /\ UNCHANGED modelVars
    /\ UNCHANGED threadVars

(* Answers of the analyzer that hold no change: only blank lines, only
   comment lines, only list prefixes. *)
EdgeTexts ==
    { <<" ", "\n", "\t">>,
      <<"#", " ", "no changes">>,
      <<"#", "\n", " ", "#", "none">>,
      <<"-", " ">>,
      <<"*", " ", "\n", "1", ".", " ">> }

CliTexts == DetTexts \cup EdgeTexts

AnalyzeCli == AnalyzeOk(CliTexts)

InitCli ==
    /\ cli_cmd \in {"generate", "apply", "validate"}
    /\ cli_opts \in CliOptions
    /\ cli_cmd = "generate" => ~cli_opts.auto_approve
    /\ cli_cmd = "apply" => (cli_opts.dry_run /\ cli_opts.output = Absent)
    /\ cli_cmd = "validate" => (~cli_opts.auto_approve /\ ~cli_opts.dry_run
                                 /\ cli_opts.output = Absent)
    /\ cli_pc = "start"
    /\ cli_error = "none"
    /\ exit_code = Running
    /\ displayed = "nothing"
    /\ shown_sql = Absent
    /\ output_file = Absent
    /\ apply_outcome = "none"
    /\ prompt_answer = "not_asked"
    /\ executed_sql = <<>>
    /\ doc \in CliFiles
    /\ ppc = "unused"
    /\ parse_out = NoResult
    /\ validate_out = NoResult
    /\ schema_def = NoResult
    /\ current_state = NoResult
    /\ gpc = "idle"
    /\ request = NoResult
    /\ analysis_result = NoResult
    /\ sql_result = NoResult
    /\ validation_result = NoResult
    /\ change_script = NoResult
    /\ gen_error = "none"
    /\ prev_changes = <<>>
    /\ log = <<>>
    /\ FetchUnused
    /\ ModelsUnused
    /\ ThreadsUnused

NextCli ==
    \/ CliLoadConfig \/ CliParseOptions \/ CliParseFile \/ CliConnect \/ CliInspect \/ CliNewGenerator
    \/ AnalyzeCli \/ GenerateSqlOk \/ ValidateSqlOk \/ LlmFails
    \/ CliGenerateFailed \/ CliDisplay \/ CliConfirm \/ CliExit

SpecCli == InitCli /\ [][NextCli]_vars

(* ------------------------------------------------------------------ *)
(* Properties of the parser and the validator                           *)
(* ------------------------------------------------------------------ *)
Distinct(items) ==
    \A i, j \in 1..Len(items) : i # j => items[i].name # items[j].name

ExternalWithoutLocation(table) ==
    table.type = "EXTERNAL" /\ table.location \in {None, ""}

(* The violations of a schema model, each with its description. *)
Violations(sd) ==
    (IF Distinct(sd.schemas) THEN {} ELSE {<<"Duplicate schema names found">>})
    \cup {<<"Duplicate table names in schema", sd.schemas[i].name>> :
            i \in {k \in 1..Len(sd.schemas) : ~Distinct(sd.schemas[k].tables)}}
    \cup UNION {
           {<<"Duplicate column names in table", sd.schemas[i].name,
              sd.schemas[i].tables[j].name>> :
                j \in {k \in 1..Len(sd.schemas[i].tables) :
                         ~Distinct(sd.schemas[i].tables[k].columns)}}
           : i \in 1..Len(sd.schemas)}
    \cup UNION {
           {<<"External table must specify a location", sd.schemas[i].name,
              sd.schemas[i].tables[j].name>> :
                j \in {k \in 1..Len(sd.schemas[i].tables) :
                         ExternalWithoutLocation(sd.schemas[i].tables[k])}}
           : i \in 1..Len(sd.schemas)}

Validated == ppc = "validated"

(* C6: validate_schema examines the whole model and raises one
   ValidationError whose message describes every violation of the model. *)
C6_CollectThenReport ==
    (Validated /\ Violations(parse_out.value) # {})
        => /\ validate_out.kind = "ValidationError"
           /\ Violations(parse_out.value) \subseteq Range(validate_out.msg)

C6_Witness ==
    /\ Validated
    /\ Cardinality(Violations(parse_out.value)) >= 2
    /\ validate_out.kind = "ValidationError"

StructurallyValid(sd) ==
    /\ Distinct(sd.schemas)
    /\ \A i \in 1..Len(sd.schemas) :
         /\ Distinct(sd.schemas[i].tables)
         /\ \A j \in 1..Len(sd.schemas[i].tables) :
              /\ Distinct(sd.schemas[i].tables[j].columns)
              /\ ~ExternalWithoutLocation(sd.schemas[i].tables[j])

(* A document that has every required key, no empty name and no EXTERNAL
   table whose location is given empty. *)
ColumnDataComplete(cd) ==
    IF "str" \in DOMAIN cd THEN cd.str # ""
    ELSE "name" \in DOMAIN cd /\ "type" \in DOMAIN cd /\ cd.name # ""

TableDataComplete(td) ==
    /\ "name" \in DOMAIN td
    /\ td.name # ""
    /\ ("location" \in DOMAIN td /\ "type" \in DOMAIN td /\ td.type = "EXTERNAL")
          => td.location # ""
    /\ \A k \in 1..Len(td.columns) : ColumnDataComplete(td.columns[k])

DocComplete(d) ==
    /\ "catalog" \in DOMAIN d
    /\ \A i \in 1..Len(d.schemas) :
         /\ "name" \in DOMAIN d.schemas[i]
         /\ d.schemas[i].name # ""
         /\ \A j \in 1..Len(d.schemas[i].tables) :
              TableDataComplete(d.schemas[i].tables[j])

(* C7: validate_schema returns normally exactly for the models without
   duplicate schema, table or column names and without an EXTERNAL table
   lacking a location, and raises ValidationError otherwise; parse_dict
   itself accepts documents with duplicate names or an EXTERNAL table whose
   location key is omitted. *)
C7_AcceptsExactlyValid ==
    /\ Validated =>
         /\ (validate_out.kind = "ok") <=> StructurallyValid(parse_out.value)
         /\ validate_out.kind \in {"ok", "ValidationError"}
    /\ (ppc \in {"parsed", "validated"} /\ DocComplete(doc)) => parse_out.kind = "ok"

C7_Witness ==
    /\ Validated
    /\ validate_out.kind = "ValidationError"
    /\ \E i \in 1..Len(parse_out.value.schemas) :
         \E j \in 1..Len(parse_out.value.schemas[i].tables) :
            /\ ExternalWithoutLocation(parse_out.value.schemas[i].tables[j])
            /\ Distinct(parse_out.value.schemas[i].tables[j].columns)

(* The messages of the defects of a document. *)
ColumnDefects(cd) ==
    IF "str" \in DOMAIN cd
    THEN (IF cd.str = "" THEN {"Column name cannot be empty"} ELSE {})
    ELSE IF "name" \notin DOMAIN cd THEN {"Column must have a 'name' field"}
    ELSE (IF "type" \notin DOMAIN cd THEN {"Column must have a 'type' field"} ELSE {})
         \cup (IF cd.name = "" THEN {"Column name cannot be empty"} ELSE {})

TableDefects(td) ==
    (IF "name" \notin DOMAIN td THEN {"Table must have a 'name' field"}
     ELSE IF td.name = "" THEN {"Table name cannot be empty"} ELSE {})
    \cup (IF /\ "location" \in DOMAIN td /\ "type" \in DOMAIN td
             /\ td.type = "EXTERNAL" /\ td.location = ""
          THEN {"External tables must specify a location"} ELSE {})
    \cup UNION {ColumnDefects(td.columns[k]) : k \in 1..Len(td.columns)}

SchemaDefects(sd) ==
    (IF "name" \notin DOMAIN sd THEN {"Schema must have a 'name' field"}
     ELSE IF sd.name = "" THEN {"Schema name cannot be empty"} ELSE {})
    \cup UNION {TableDefects(sd.tables[j]) : j \in 1..Len(sd.tables)}

DocDefects(d) ==
    (IF "catalog" \notin DOMAIN d
     THEN {"Schema definition must include 'catalog'"} ELSE {})
    \cup UNION {SchemaDefects(d.schemas[i]) : i \in 1..Len(d.schemas)}

(* C8: when a document has defects in several places, the error raised by
   parse_dict reports all of them together. *)
C8_ParseReportsAll ==
    (ppc = "parsed" /\ parse_out.kind # "ok")
        => DocDefects(doc) \subseteq Range(parse_out.msg)

(* ------------------------------------------------------------------ *)
(* Properties of the pipeline                                           *)
(* ------------------------------------------------------------------ *)

(* C9: generate_changes is invoked only after validate_schema succeeded on
   the parsed model, so it never receives a model with duplicate names or
   an EXTERNAL table without location. *)
C9_ValidatedBeforeGenerate ==
    gpc # "idle"
        => /\ <<"validate_schema", "ok">> \in Range(log)
           /\ StructurallyValid(schema_def)

StageOrder ==
    <<"config", "parse", "connect", "inspect", "construct", "analyze", "sqlgen",
      "sqlvalidate">>

StageFailed == \E i \in 1..Len(log) : log[i][2] = "failed"

(* C10: the stages of a run happen one after the other in pipeline order,
   each starting only when the one before it succeeded; generate_changes
   starts with the snapshot get_current_state returned; and once a stage
   failed no later stage runs and nothing is displayed or written. *)
C10_Sequential ==
    /\ Len(log) <= Len(StageOrder)
    /\ \A i \in 1..Len(log) :
         /\ log[i][1] = StageOrder[i]
         /\ i < Len(log) => log[i][2] = "ok"
    /\ gpc # "idle" => (<<"inspect", "ok">> \in Range(log)
                        /\ current_state \in GenCurrentStates)
    /\ StageFailed => (displayed = "nothing" /\ shown_sql = Absent
                       /\ output_file = Absent)
    /\ (displayed # "nothing" \/ output_file # Absent)
          => (Len(log) = Len(StageOrder) /\ ~StageFailed)

C10_Witness ==
    /\ cli_pc = "exited"
    /\ exit_code = 1
    /\ log[Len(log)] = <<"sqlgen", "failed">>
    /\ displayed = "nothing"

(* ------------------------------------------------------------------ *)
(* Errors of generate_changes                                           *)
(* ------------------------------------------------------------------ *)
Raised == gpc = "raised"

(* C11: generate_changes never raises for a valid schema model and any
   current state (sparse maps included): no call ever ends in an error. *)
C11_NeverRaises == ~Raised /\ gen_error = "none"

(* ------------------------------------------------------------------ *)
(* The workspace DatabricksClient talks to                              *)
(* ------------------------------------------------------------------ *)
SchemaNames == <<"a", "b", "d">>

TableNames == <<"t", "u", "v">>

(* The TableInfo tables.list yields for the j-th table of a schema. *)
ListedTable(j) ==
    IF j % 2 = 1
    THEN MkTable(TableNames[j], "MANAGED", None, <<>>)
    ELSE MkTable(TableNames[j], "EXTERNAL", "s3://bucket", <<>>)

(* The TableInfo tables.get yields for it: columns and comment filled in,
   storage_location left out. *)
DetailedTable(table) ==
    [table EXCEPT !.columns = << MkColumn("x", "BIGINT", FALSE) >>,
                  !.comment = "detailed",
                  !.location = None]

GetOutcomes == {"ok", "Exception"}

ListOutcomes == {"ok", "NotFound", "Exception"}

CatalogOutcomes == {"ok", "NotFound", "PermissionDenied", "Exception"}

WorkspaceTables ==
    UNION {{[j \in 1..n |-> [summary |-> ListedTable(j), get |-> g[j]]] :
              g \in [1..n -> GetOutcomes]} : n \in 0..MaxFetchTables}

(* A schema whose table listing fails has no tables to tell apart. *)
SchemaListings ==
    {<<"ok", tables>> : tables \in WorkspaceTables}
    \cup {<<outcome, <<>>>> : outcome \in ListOutcomes \ {"ok"}}

WorkspaceSchemas ==
    UNION {{[i \in 1..n |-> [name |-> SchemaNames[i], comment |-> None,
                             tables_list |-> f[i][1], tables |-> f[i][2]]] :
              f \in [1..n -> SchemaListings]} :
           n \in 0..MaxFetchSchemas}

Workspaces ==
    [catalog : CatalogOutcomes, schemas_api : GetOutcomes, schemas : WorkspaceSchemas]

FetchArgs == [catalog_name : {"c"}, schema_name : {None, "", "a"}]

(* ------------------------------------------------------------------ *)
(* DatabricksClient.get_current_state                                   *)
(* ------------------------------------------------------------------ *)
(* d[k] = v on an insertion-ordered dict *)
Put(d, k, v) ==
    IF k \in Keys(d)
    THEN [i \in 1..Len(d) |-> IF d[i][1] = k THEN <<k, v>> ELSE d[i]]
    ELSE Append(d, <<k, v>>)

Fetched(out, calls) == [out |-> out, calls |-> calls]

(* _get_tables_in_schema, the loop body: the basic dict, updated with the
   detailed one unless tables.get failed *)
TableInfoOf(entry) ==
    LET table_info == TableToDict(entry.summary)
    IN  IF entry.get = "ok"
        THEN TableToDict(DetailedTable(entry.summary)) @@ table_info
        ELSE table_info

RECURSIVE TablesFrom(_, _, _)
TablesFrom(entries, j, tables) ==
    IF j > Len(entries) THEN tables
    ELSE TablesFrom(entries, j + 1,
                    Put(tables, entries[j].summary.name, TableInfoOf(entries[j])))

(* A _get_tables_in_schema that gives up when one tables.get fails. *)
GetTablesInSchemaAbortsOnDetail(schema) ==
    LET listed == << <<"tables.list", schema.name>> >>
        gets   == [j \in 1..Len(schema.tables) |->
                     <<"tables.get", schema.name, schema.tables[j].summary.name>>]
    IN  CASE schema.tables_list = "NotFound" -> Fetched(Ok(<<>>), listed)
          [] /\ schema.tables_list = "ok"
             /\ \A j \in 1..Len(schema.tables) : schema.tables[j].get = "ok" ->
               Fetched(Ok(TablesFrom(schema.tables, 1, <<>>)), listed \o gets)
          [] OTHER ->
               Fetched(Raise("DatabricksConnectionError", "Failed to list tables"),
                       listed)

GetTablesInSchema(schema) ==
    LET listed == << <<"tables.list", schema.name>> >>
        gets   == [j \in 1..Len(schema.tables) |->
                     <<"tables.get", schema.name, schema.tables[j].summary.name>>]
    IN  CASE schema.tables_list = "NotFound" -> Fetched(Ok(<<>>), listed)
          [] schema.tables_list = "ok" ->
               Fetched(Ok(TablesFrom(schema.tables, 1, <<>>)), listed \o gets)
          [] OTHER ->
               Fetched(Raise("DatabricksConnectionError", "Failed to list tables"),
                       listed)

(* A fetch that keeps a table map only for schemas that have tables. *)
AddSchemaSkipsEmptyTables(state, schema) ==
    LET tables == GetTablesInSchema(schema)
    IN  IF tables.out.kind = "ok"
        THEN Fetched(Ok([state EXCEPT
                           !.schemas = Put(@, schema.name, SchemaToDict(schema)),
                           !.tables  = IF tables.out.value = <<>> THEN @
                                       ELSE Put(@, schema.name, tables.out.value)]),
                     tables.calls)
        ELSE Fetched(Raise("DatabricksConnectionError",
                           "Failed to inspect target environment"),
                     tables.calls)

(* get_current_state, lines 46-51 and 56-60: record one schema and its tables *)
AddSchema(state, schema) ==
    LET tables == GetTablesInSchema(schema)
    IN  IF tables.out.kind = "ok"
        THEN Fetched(Ok([state EXCEPT
                           !.schemas = Put(@, schema.name, SchemaToDict(schema)),
                           !.tables  = Put(@, schema.name, tables.out.value)]),
                     tables.calls)
        ELSE Fetched(Raise("DatabricksConnectionError",
                           "Failed to inspect target environment"),
                     tables.calls)

RECURSIVE AllSchemasFrom(_, _, _, _)
AllSchemasFrom(schemas, i, state, calls) ==
    IF i > Len(schemas) THEN Fetched(Ok(state), calls)
    ELSE LET added == AddSchema(state, schemas[i])
         IN  IF added.out.kind = "ok"
             THEN AllSchemasFrom(schemas, i + 1, added.out.value,
                                 calls \o added.calls)
             ELSE Fetched(added.out, calls \o added.calls)

(* A lookup of an absent catalog that is reported as an error. *)
CatalogNotFoundRaises(args) ==
    Fetched(Raise("DatabricksConnectionError", "Failed to inspect target environment"),
            << <<"catalogs.get", args.catalog_name>> >>)

(* get_current_state, lines 39-41: the catalog lookup raised NotFound *)
CatalogNotFound(args) ==
    Fetched(Ok(EmptyCurrentState), << <<"catalogs.get", args.catalog_name>> >>)

GetCurrentState(ws, args) ==
    LET inspect_failed ==
            Raise("DatabricksConnectionError", "Failed to inspect target environment")
        denied ==
            Raise("DatabricksConnectionError", "Permission denied accessing catalog")
        got_catalog == << <<"catalogs.get", args.catalog_name>> >>
        found == [EmptyCurrentState EXCEPT !.catalog_exists = TRUE]
        named == {i \in 1..Len(ws.schemas) : ws.schemas[i].name = args.schema_name}
    IN  CASE ws.catalog = "NotFound" -> CatalogNotFound(args)
          [] ws.catalog = "PermissionDenied" -> Fetched(denied, got_catalog)
          [] ws.catalog = "Exception" -> Fetched(inspect_failed, got_catalog)
          [] OTHER ->
               IF Truthy(args.schema_name)
               THEN LET got_schema ==
                            got_catalog \o << <<"schemas.get", args.schema_name>> >>
                    IN  IF ws.schemas_api # "ok" THEN Fetched(inspect_failed, got_schema)
                        ELSE IF named = {} THEN Fetched(Ok(found), got_schema)
                        ELSE LET added == AddSchema(found,
                                                    ws.schemas[CHOOSE i \in named : TRUE])
                             IN  Fetched(added.out, got_schema \o added.calls)
               ELSE LET listed ==
                            got_catalog \o << <<"schemas.list", args.catalog_name>> >>
                    IN  IF ws.schemas_api # "ok" THEN Fetched(inspect_failed, listed)
                        ELSE AllSchemasFrom(ws.schemas, 1, found, listed)

CallGetCurrentState ==
    /\ fetch_out = NoResult
    /\ fetch_out' = GetCurrentState(workspace, fetch_args).out
    /\ api_calls' = GetCurrentState(workspace, fetch_args).calls
    /\ UNCHANGED <<workspace, fetch_args>>
    /\ UNCHANGED genVars
    /\ UNCHANGED parseVars
    /\ UNCHANGED cliVars
    /\ UNCHANGED modelVars
    /\ UNCHANGED threadVars
    /\ UNCHANGED log

InitFetch ==
    /\ workspace \in Workspaces
    /\ fetch_args \in FetchArgs
    /\ fetch_out = NoResult
    /\ api_calls = <<>>
    /\ schema_def = NoResult
    /\ current_state = NoResult
    /\ gpc = "idle"
    /\ request = NoResult
    /\ analysis_result = NoResult
    /\ sql_result = NoResult
    /\ validation_result = NoResult
    /\ change_script = NoResult
    /\ gen_error = "none"
    /\ prev_changes = <<>>
    /\ log = <<>>
    /\ doc = EmptyDoc
    /\ ppc = "unused"
    /\ parse_out = NoResult
    /\ validate_out = NoResult
    /\ CliUnused
    /\ ModelsUnused
    /\ ThreadsUnused

NextFetch == CallGetCurrentState

SpecFetch == InitFetch /\ [][NextFetch]_vars

(* ------------------------------------------------------------------ *)
(* What get_current_state reports                                       *)
(* ------------------------------------------------------------------ *)
FetchDone == fetch_out # NoResult

FetchReturned == FetchDone /\ fetch_out.kind = "ok"

CallNames == {api_calls[i][1] : i \in 1..Len(api_calls)}

(* C12: when the catalog lookup reports not-found, get_current_state
   raises nothing and returns catalog_exists = false with empty schemas,
   tables and volumes, and issues no schema or table listing call. *)
C12_AbsentCatalog ==
    (FetchDone /\ workspace.catalog = "NotFound")
        => /\ FetchReturned
           /\ fetch_out.value.catalog_exists = FALSE
           /\ fetch_out.value.schemas = <<>>
           /\ fetch_out.value.tables = <<>>
           /\ fetch_out.value.volumes = <<>>
           /\ CallNames = {"catalogs.get"}

C12_Witness ==
    /\ FetchReturned
    /\ workspace.catalog = "NotFound"
    /\ Len(workspace.schemas) = MaxFetchSchemas
    /\ Len(workspace.schemas[1].tables) > 0

(* The schemas get_current_state is asked to look at. *)
InScope ==
    {i \in 1..Len(workspace.schemas) :
        Truthy(fetch_args.schema_name)
            => workspace.schemas[i].name = fetch_args.schema_name}

(* Every call other than tables.get answered. *)
OnlyDetailsFail ==
    /\ workspace.catalog = "ok"
    /\ workspace.schemas_api = "ok"
    /\ \A i \in InScope : workspace.schemas[i].tables_list # "Exception"

ReportedTable(i, j) ==
    Lookup(Lookup(fetch_out.value.tables, workspace.schemas[i].name, <<>>),
           workspace.schemas[i].tables[j].summary.name, <<>>)

(* The attributes tables.list gave for a table. *)
HasBasicAttributes(info, summary) ==
    /\ {"name", "table_type", "comment"} \subseteq DOMAIN info
    /\ info["name"] = summary.name
    /\ info["table_type"] = summary.type
    /\ Truthy(summary.location) =>
          Get(info, "storage_location", Absent) = summary.location

(* C13: a failing tables.get never makes get_current_state raise; the
   table stays in the result with the attributes the listing gave, and
   every other listed table of every schema in scope is reported too,
   with its detailed attributes when its own tables.get answered. *)
C13_DegradesToBasic ==
    (FetchDone /\ OnlyDetailsFail)
        => /\ FetchReturned
           /\ \A i \in InScope :
                /\ workspace.schemas[i].name \in Keys(fetch_out.value.schemas)
                /\ workspace.schemas[i].tables_list = "ok" =>
                     \A j \in 1..Len(workspace.schemas[i].tables) :
                        LET entry == workspace.schemas[i].tables[j]
                            info  == ReportedTable(i, j)
                        IN  /\ HasBasicAttributes(info, entry.summary)
                            /\ entry.get # "ok" =>
                                 /\ info["comment"] = entry.summary.comment
                                 /\ "columns" \notin DOMAIN info
                            /\ entry.get = "ok" =>
                                 /\ "columns" \in DOMAIN info
                                 /\ info["comment"] = "detailed"

C13_Witness ==
    /\ FetchReturned
    /\ OnlyDetailsFail
    /\ \E i \in InScope :
         /\ workspace.schemas[i].tables_list = "ok"
         /\ Len(workspace.schemas[i].tables) >= 2
         /\ workspace.schemas[i].tables[1].get # "ok"
         /\ workspace.schemas[i].tables[2].get = "ok"
         /\ "columns" \in DOMAIN ReportedTable(i, 2)
         /\ "columns" \notin DOMAIN ReportedTable(i, 1)

(* ------------------------------------------------------------------ *)
(* Constructors and methods of the data model                           *)
(* ------------------------------------------------------------------ *)
VolumeTypes == {"MANAGED", "EXTERNAL"}

KeyConstraintTypes == {"PRIMARY_KEY", "FOREIGN_KEY"}

ConstraintTypes == KeyConstraintTypes \cup {"CHECK", "NOT_NULL"}

(* Volume(...): validate_name, the VolumeType enum, validate_location *)
NewVolume(d) ==
    LET type == Get(d, "type", "MANAGED")
        name_errors ==
            IF NameInvalid(d.name) THEN <<"Volume name cannot be empty">> ELSE <<>>
        type_errors ==
            IF type \notin VolumeTypes THEN <<"Input should be a VolumeType">> ELSE <<>>
        location_errors ==
            IF "location" \in DOMAIN d /\ type = "EXTERNAL" /\ ~Truthy(d.location)
            THEN <<"External volumes must specify a location">> ELSE <<>>
        errors == name_errors \o type_errors \o location_errors
    IN  IF errors # <<>>
        THEN Raise("PydanticError", errors)
        ELSE Ok([name |-> StripName(d.name), type |-> type,
                 location |-> Get(d, "location", None),
                 comment |-> Get(d, "comment", None)])

(* Constraint(...): type is required; validate_columns runs only when
   columns is given *)
NewConstraint(d) ==
    LET type_errors ==
            IF "type" \notin DOMAIN d THEN <<"Field required">>
            ELSE IF d.type \notin ConstraintTypes
                 THEN <<"Input should be a ConstraintType">> ELSE <<>>
        columns_errors ==
            IF /\ "columns" \in DOMAIN d
               /\ Get(d, "type", None) \in KeyConstraintTypes
               /\ d.columns = <<>>
            THEN <<"constraint must specify columns">> ELSE <<>>
        errors == type_errors \o columns_errors
    IN  IF errors # <<>>
        THEN Raise("PydanticError", errors)
        ELSE Ok([name |-> Get(d, "name", None), type |-> d.type,
                 columns |-> Get(d, "columns", <<>>)])

(* ChangeScript(sql=..., changes=..., warnings=...) *)
NewChangeScript(d) ==
    Ok([sql |-> d.sql, changes |-> Get(d, "changes", <<>>),
        warnings |-> Get(d, "warnings", <<>>)])

WarningSign == "<warning sign>"

(* ChangeScript.summary *)
Summary(script) ==
    IF ~HasChanges(script) THEN <<"No changes required">>
    ELSE LET change_lines ==
                 [i \in 1..Len(script.changes) |-> <<Bullet, " ", script.changes[i]>>]
             warning_lines ==
                 IF script.warnings # <<>>
                 THEN << <<"\n", "Warnings:">> >>
                      \o [i \in 1..Len(script.warnings) |->
                            <<WarningSign, "  ", script.warnings[i]>>]
                 ELSE <<>>
         IN  Join(change_lines \o warning_lines, <<"\n">>)

New(args) ==
    CASE args.class = "Table"        -> NewTable(args.kwargs)
      [] args.class = "Volume"       -> NewVolume(args.kwargs)
      [] args.class = "Constraint"   -> NewConstraint(args.kwargs)
      [] args.class = "ChangeScript" -> NewChangeScript(args.kwargs)

Locations == {<<>>} \cup {[location |-> l] : l \in {None, "", "s3://bucket"}}

TableArgs ==
    {[name |-> "t", columns |-> <<>>] @@ type @@ location :
        type \in {<<>>} \cup {[type |-> t] : t \in TableTypes \cup {"BOGUS"}},
        location \in Locations}

VolumeArgs ==
    {[name |-> "v"] @@ type @@ location :
        type \in {<<>>} \cup {[type |-> t] : t \in VolumeTypes \cup {"BOGUS"}},
        location \in Locations}

ConstraintArgs ==
    {type @@ columns :
        type \in {<<>>} \cup {[type |-> t] : t \in ConstraintTypes \cup {"BOGUS"}},
        columns \in {<<>>} \cup {[columns |-> c] : c \in {<<>>, <<"x">>}}}

ScriptItems == SeqsUpTo({"create schema a", "drop column y from a.t"}, MaxScriptItems)

ChangeScriptArgs ==
    {[sql |-> sql] @@ changes @@ warnings :
        sql \in {"", "SQL"},
        changes \in {<<>>} \cup {[changes |-> c] : c \in ScriptItems},
        warnings \in {<<>>} \cup {[warnings |-> w] : w \in ScriptItems}}

NewArgs ==
    {[class |-> "Table", kwargs |-> k] : k \in TableArgs}
    \cup {[class |-> "Volume", kwargs |-> k] : k \in VolumeArgs}
    \cup {[class |-> "Constraint", kwargs |-> k] : k \in ConstraintArgs}
    \cup {[class |-> "ChangeScript", kwargs |-> k] : k \in ChangeScriptArgs}

Construct ==
    /\ instance = NoResult
    /\ instance' = New(new_args)
    /\ UNCHANGED <<new_args, call_out>>
    /\ UNCHANGED genVars
    /\ UNCHANGED parseVars
    /\ UNCHANGED cliVars
    /\ UNCHANGED fetchVars
    /\ UNCHANGED threadVars
    /\ UNCHANGED log

IsScript == instance # NoResult /\ instance.kind = "ok" /\ new_args.class = "ChangeScript"

CallHasChanges ==
    /\ IsScript
    /\ call_out = NoResult
    /\ call_out' = [method |-> "has_changes", answer |-> HasChanges(instance.value)]
    /\ UNCHANGED <<new_args, instance>>
    /\ UNCHANGED genVars
    /\ UNCHANGED parseVars
    /\ UNCHANGED cliVars
    /\ UNCHANGED fetchVars
    /\ UNCHANGED threadVars
    /\ UNCHANGED log

CallSummary ==
    /\ IsScript
    /\ call_out = NoResult
    /\ call_out' = [method |-> "summary", text |-> Summary(instance.value)]
    /\ UNCHANGED <<new_args, instance>>
    /\ UNCHANGED genVars
    /\ UNCHANGED parseVars
    /\ UNCHANGED cliVars
    /\ UNCHANGED fetchVars
    /\ UNCHANGED threadVars
    /\ UNCHANGED log

InitModels ==
    /\ ThreadsUnused
    /\ new_args \in NewArgs
    /\ instance = NoResult
    /\ call_out = NoResult
    /\ schema_def = NoResult
    /\ current_state = NoResult
    /\ gpc = "idle"
    /\ request = NoResult
    /\ analysis_result = NoResult
    /\ sql_result = NoResult
    /\ validation_result = NoResult
    /\ change_script = NoResult
    /\ gen_error = "none"
    /\ prev_changes = <<>>
    /\ log = <<>>
    /\ doc = EmptyDoc
    /\ ppc = "unused"
    /\ parse_out = NoResult
    /\ validate_out = NoResult
    /\ CliUnused
    /\ FetchUnused

NextModels == Construct \/ CallHasChanges \/ CallSummary

SpecModels == InitModels /\ [][NextModels]_vars

(* ------------------------------------------------------------------ *)
(* Invariants of the data model                                         *)
(* ------------------------------------------------------------------ *)
Built(class) == instance # NoResult /\ instance.kind = "ok" /\ new_args.class = class

Called(method) == call_out # NoResult /\ call_out.method = method

(* C14: has_changes() answers true exactly when the changes list is
   non-empty, whatever the sql text and the warnings are. *)
C14_HasChangesIffNonEmpty ==
    Called("has_changes") => (call_out.answer <=> Len(instance.value.changes) > 0)

C14_Witness ==
    /\ Called("has_changes")
    /\ call_out.answer = FALSE
    /\ instance.value.warnings # <<>>
    /\ instance.value.sql # ""

SummaryLinesOut == Split(call_out.text, "\n")

(* C15: summary() has one bulleted line per change, in list order, and,
   whenever there are warnings, a "Warnings:" line followed by one line
   per warning, in list order. *)
C15_SummaryShowsWarnings ==
    Called("summary") =>
        LET script == instance.value
            lines  == SummaryLinesOut
        IN  /\ Len(lines) >= Len(script.changes)
            /\ \A i \in 1..Len(script.changes) :
                 lines[i] = <<Bullet, " ", script.changes[i]>>
            /\ script.warnings # <<>> =>
                 \E k \in 1..Len(lines) :
                    /\ k > Len(script.changes)
                    /\ lines[k] = <<"Warnings:">>
                    /\ Len(lines) = k + Len(script.warnings)
                    /\ \A i \in 1..Len(script.warnings) :
                         lines[k + i] = <<WarningSign, "  ", script.warnings[i]>>

(* C16: every Table and Volume that was constructed has a non-empty
   location exactly when its type is EXTERNAL. *)
C16_LocationIffExternal ==
    (Built("Table") \/ Built("Volume"))
        => (Truthy(instance.value.location) <=> instance.value.type = "EXTERNAL")

(* C17: every PRIMARY_KEY or FOREIGN_KEY Constraint that was constructed
   has a non-empty column list. *)
C17_KeyHasColumns ==
    (Built("Constraint") /\ instance.value.type \in KeyConstraintTypes)
        => instance.value.columns # <<>>

(* ------------------------------------------------------------------ *)
(* Types of the errors the CLI reports                                  *)
(* ------------------------------------------------------------------ *)
FailedStage == log[Len(log)][1]

(* The category of the failure of a stage: the type the error had where
   it was first raised. *)
ErrorCategory(stage) ==
    CASE stage = "config" -> "ConfigurationError"
      [] stage = "parse" ->
           IF doc # InvalidYaml /\ ParseDict(doc).kind = "ValidationError"
           THEN "ValidationError" ELSE "SchemaParsingError"
      [] stage \in {"connect", "inspect"} -> "DatabricksConnectionError"
      [] stage \in {"analyze", "sqlgen", "sqlvalidate"} -> "ChangeGenerationError"
      [] OTHER -> cli_error

(* C18: an error that reaches the CLI has the type of its own category;
   in particular a ValidationError raised inside parse_dict is still a
   ValidationError when parse_file hands it to generate. *)
C18_DistinctErrorTypes ==
    (cli_pc = "exited" /\ StageFailed) => cli_error = ErrorCategory(FailedStage)

(* ------------------------------------------------------------------ *)
(* Types of the errors parse_dict raises                                *)
(* ------------------------------------------------------------------ *)
MissingKeyDefects ==
    {"Schema definition must include 'catalog'", "Schema must have a 'name' field",
     "Table must have a 'name' field", "Column must have a 'name' field",
     "Column must have a 'type' field"}

Parsed == ppc \in {"parsed", "validated"}

(* The defects of the document that the error names. *)
ReportedDefects == DocDefects(doc) \cap Range(parse_out.msg)

(* C19: a parse failure caused by a missing required key ('catalog', a
   schema's, table's or column's 'name', a column's 'type') is a
   ValidationError, every other parse failure is a SchemaParsingError, and
   a failed parse returns no model. *)
C19_MissingKeyIsValidationError ==
    Parsed =>
        /\ parse_out.kind \in {"ok", "ValidationError", "SchemaParsingError"}
        /\ parse_out.kind = "ok" <=> DocDefects(doc) = {}
        /\ parse_out.kind # "ok" =>
             /\ "value" \notin DOMAIN parse_out
             /\ ReportedDefects # {}
             /\ parse_out.kind = "ValidationError"
                   <=> ReportedDefects \subseteq MissingKeyDefects
             /\ parse_out.kind = "SchemaParsingError"
                   <=> ReportedDefects \cap MissingKeyDefects = {}
        /\ (DocDefects(doc) # {} /\ DocDefects(doc) \subseteq MissingKeyDefects)
              => parse_out.kind = "ValidationError"
        /\ (DocDefects(doc) # {} /\ DocDefects(doc) \cap MissingKeyDefects = {})
              => parse_out.kind = "SchemaParsingError"

C19_Witness ==
    /\ Parsed
    /\ parse_out.kind = "ValidationError"
    /\ "Column must have a 'type' field" \in ReportedDefects
    /\ "catalog" \in DOMAIN doc

(* ------------------------------------------------------------------ *)
(* What parse_dict keeps of the document                                *)
(* ------------------------------------------------------------------ *)
ParsedOk == Parsed /\ parse_out.kind = "ok"

AsGiven(n) == n

GivenColumnName(cd) == IF "str" \in DOMAIN cd THEN cd.str ELSE cd.name

GivenColumnType(cd) == IF "str" \in DOMAIN cd THEN "STRING" ELSE cd.type

(* The model sd has the catalog, schemas, tables and columns of document d,
   in the same order, each named Name(given name). *)
SameStructure(sd, d, Name(_)) ==
    /\ sd.catalog.name = Name(d.catalog)
    /\ Len(sd.schemas) = Len(d.schemas)
    /\ \A i \in 1..Len(d.schemas) :
         LET schema == sd.schemas[i]
             given  == d.schemas[i]
         IN  /\ schema.name = Name(given.name)
             /\ Len(schema.tables) = Len(given.tables)
             /\ \A j \in 1..Len(given.tables) :
                  LET table == schema.tables[j]
                      td    == given.tables[j]
                  IN  /\ table.name = Name(td.name)
                      /\ table.type = Get(td, "type", "MANAGED")
                      /\ table.location = Get(td, "location", None)
                      /\ Len(table.columns) = Len(td.columns)
                      /\ \A k \in 1..Len(td.columns) :
                           /\ table.columns[k].name = Name(GivenColumnName(td.columns[k]))
                           /\ table.columns[k].type = GivenColumnType(td.columns[k])

(* C20 as stated: the parsed model has the document's catalog name and
   its schemas, tables and columns in document order under the names
   given, with each table's type (MANAGED when omitted) and location. *)
C20_PreservesStructure ==
    ParsedOk => SameStructure(parse_out.value, doc, AsGiven)

(* C20 amended: the same, each name being the given name with the
   surrounding whitespace removed. *)
C20_PreservesStructureTrimmed ==
    ParsedOk => SameStructure(parse_out.value, doc, StripName)

C20_Witness ==
    /\ ParsedOk
    /\ \E i \in 1..Len(doc.schemas) : \E j \in 1..Len(doc.schemas[i].tables) :
         LET td == doc.schemas[i].tables[j]
         IN  /\ Len(td.columns) = 2
             /\ GivenColumnName(td.columns[1]) = "b"
             /\ GivenColumnName(td.columns[2]) = " a"
             /\ parse_out.value.schemas[i].tables[j].columns[2].name = "a"

(* ------------------------------------------------------------------ *)
(* Exit codes of the CLI                                                *)
(* ------------------------------------------------------------------ *)
Exited == cli_pc = "exited"

Reported == cli_error # "none"

(* C21: a run of generate, validate or apply ends with exit code 1 if an
   error was reported during the run and with exit code 0 otherwise. *)
C21_ExitCodes == Exited => exit_code = (IF Reported THEN 1 ELSE 0)

(* ------------------------------------------------------------------ *)
(* apply: confirmation before execution                                 *)
(* ------------------------------------------------------------------ *)
Prompted == prompt_answer # "not_asked"

GenerateCompleted ==
    /\ gpc = "returned"
    /\ Len(log) = Len(StageOrder)
    /\ ~StageFailed
    /\ displayed # "nothing"
    /\ ~Reported

(* C22: apply runs generate first; the confirmation prompt is reached only
   when generate completed without error (and --auto-approve was not
   given); no statement is executed unless the user confirmed or
   --auto-approve was given; a declined confirmation ends the command with
   nothing executed. *)
C22_ConfirmBeforeExecute ==
    /\ (Prompted \/ apply_outcome # "none")
          => (cli_cmd = "apply" /\ GenerateCompleted)
    /\ Prompted => ~cli_opts.auto_approve
    /\ executed_sql # <<>> => (prompt_answer = "yes" \/ cli_opts.auto_approve)
    /\ prompt_answer = "no"
          => (executed_sql = <<>> /\ apply_outcome = "aborted"
              /\ cli_pc \in {"finished", "exited"})
    /\ (cli_cmd = "apply" /\ Exited /\ exit_code = 0 /\ ~cli_opts.auto_approve)
          => Prompted

C22_Witness ==
    /\ cli_cmd = "apply"
    /\ Exited
    /\ prompt_answer = "no"
    /\ apply_outcome = "aborted"
    /\ executed_sql = <<>>

(* ------------------------------------------------------------------ *)
(* Several ChangeGenerators in one process                              *)
(* ------------------------------------------------------------------ *)
GeneratorIds == 1..MaxGenerators

GeneratorConfigs ==
    { [llm_endpoint |-> "databricks-meta-llama-3-1-405b-instruct",
       dspy_max_retries |-> 3],
      [llm_endpoint |-> "endpoint-b", dspy_max_retries |-> 3],
      [llm_endpoint |-> "endpoint-b", dspy_max_retries |-> 5] }

(* the settings dspy starts with: no language model configured *)
DspyDefaults == [lm |-> None, max_retries |-> None]

(* dspy.configure(lm=self.llm, max_retries=config.dspy_max_retries) *)
Configure(config) ==
    [lm |-> config.llm_endpoint, max_retries |-> config.dspy_max_retries]

ModuleCalls == <<"analyzer", "sql_generator", "validator">>

(* ChangeGenerator.__init__ of generator g: keeps config and llm on the
   instance and writes dspy's process-wide settings *)
NewChangeGenerator(g) ==
    /\ generators[g].pc = "new"
    /\ dspy_settings' = Configure(generators[g].config)
    /\ generators' = [generators EXCEPT
                        ![g].pc = "constructed",
                        ![g].llm = generators[g].config.llm_endpoint]

(* one of the three module calls of generate_changes on generator g: the
   dspy.ChainOfThought predictor inside the module was built without a
   language model of its own and uses the one in dspy's settings *)
CallModule(g) ==
    /\ generators[g].pc = "constructed"
    /\ Len(generators[g].used) < Len(ModuleCalls)
    /\ generators' = [generators EXCEPT
                        ![g].used = Append(@, dspy_settings)]
    /\ UNCHANGED dspy_settings

(* generate_changes of generator g returns its ChangeScript *)
ReturnChanges(g) ==
    /\ generators[g].pc = "constructed"
    /\ Len(generators[g].used) = Len(ModuleCalls)
    /\ generators' = [generators EXCEPT ![g].pc = "returned"]
    /\ UNCHANGED dspy_settings

OtherThreadVars ==
    /\ UNCHANGED genVars
    /\ UNCHANGED parseVars
    /\ UNCHANGED cliVars
    /\ UNCHANGED fetchVars
    /\ UNCHANGED modelVars
    /\ UNCHANGED log

Construction ==
    /\ \E g \in GeneratorIds : NewChangeGenerator(g)
    /\ OtherThreadVars

ModuleCall ==
    /\ \E g \in GeneratorIds : CallModule(g)
    /\ OtherThreadVars

Return ==
    /\ \E g \in GeneratorIds : ReturnChanges(g)
    /\ OtherThreadVars

InitThreads ==
    /\ dspy_settings = DspyDefaults
    /\ generators \in [GeneratorIds -> [config : GeneratorConfigs, pc : {"new"},
                                         llm : {None}, used : {<<>>}]]
    /\ \A g, h \in GeneratorIds :
         g # h => generators[g].config # generators[h].config
    /\ schema_def = NoResult
    /\ current_state = NoResult
    /\ gpc = "idle"
    /\ request = NoResult
    /\ analysis_result = NoResult
    /\ sql_result = NoResult
    /\ validation_result = NoResult
    /\ change_script = NoResult
    /\ gen_error = "none"
    /\ prev_changes = <<>>
    /\ log = <<>>
    /\ doc = EmptyDoc
    /\ ppc = "unused"
    /\ parse_out = NoResult
    /\ validate_out = NoResult
    /\ CliUnused
    /\ FetchUnused
    /\ ModelsUnused

NextThreads == Construction \/ ModuleCall \/ Return

SpecThreads == InitThreads /\ [][NextThreads]_vars

(* C23: generators built with different configurations do not interfere:
   every module call of a generator's generate_changes uses the endpoint
   and the retry setting of that generator's own configuration. *)
C23_NoInterference ==
    \A g \in GeneratorIds :
        \A i \in 1..Len(generators[g].used) :
            generators[g].used[i] = Configure(generators[g].config)

(* ------------------------------------------------------------------ *)
(* The change list is never empty                                       *)
(* ------------------------------------------------------------------ *)
AnalyzerText == analysis_result.changes_needed

(* every line of the text is blank or a comment *)
NoChangeLine(text) ==
    \A line \in Range(Split(text, "\n")) :
        Strip(line) = <<>> \/ StartsWith(Strip(line), <<"#">>)

(* C24: the change list of a returned ChangeScript is never empty and has
   no empty entry; it is the placeholder alone when the analyzer's text has
   no change line (empty, blank lines, comment lines); so has_changes() is
   true after every successful generate_changes and generate never shows
   "No changes required". *)
C24_ChangesNeverEmpty ==
    /\ Returned
          => /\ Changes # <<>>
             /\ \A i \in 1..Len(Changes) : Changes[i] # <<>>
             /\ HasChanges(change_script)
             /\ NoChangeLine(AnalyzerText) <=> Changes = <<Placeholder>>
    /\ displayed # "no_changes"
    /\ (Exited /\ exit_code = 0 /\ cli_cmd # "validate") => displayed = "changes"

C24_Witness ==
    /\ Exited
    /\ Returned
    /\ AnalyzerText = <<"#", "\n", " ", "#", "none">>
    /\ Changes = <<Placeholder>>
    /\ displayed = "changes"

(* ------------------------------------------------------------------ *)
(* Selection of the final script                                        *)
(* ------------------------------------------------------------------ *)
SaidInvalid ==
    /\ "is_valid" \in DOMAIN validation_result
    /\ validation_result.is_valid \in {"false", "False"}

CorrectionGiven ==
    /\ "corrected_sql" \in DOMAIN validation_result
    /\ validation_result.corrected_sql # ""

IssuesGiven == "validation_issues" \in DOMAIN validation_result

GeneratorWarned ==
    /\ "warnings" \in DOMAIN sql_result
    /\ sql_result.warnings # ""

Substituted == SaidInvalid /\ CorrectionGiven

GeneratorWarningCount == IF GeneratorWarned THEN 1 ELSE 0

(* the returned sql is the corrected one exactly when the validator said
   invalid and gave a correction, else the generator's script *)
SelectsScript ==
    /\ Substituted => change_script.sql = validation_result.corrected_sql
    /\ ~Substituted => change_script.sql = sql_result.sql_script
    /\ change_script.sql # sql_result.sql_script => Substituted

(* the issues entry is the first warning, the generator's warning the last *)
IssuesEntryFirst ==
    /\ Len(Warnings) = 1 + GeneratorWarningCount
    /\ Warnings[1] = <<"SQL validation issues", validation_result.validation_issues>>
    /\ GeneratorWarned => Warnings[Len(Warnings)] = sql_result.warnings

(* C25: the returned sql is the validator's corrected_sql exactly when
   is_valid lower-cased is "false" and corrected_sql is non-empty, else the
   generator's sql_script; and whenever the corrected SQL is substituted
   the warnings hold a "SQL validation issues" entry before any warning of
   the SQL generator. *)
C25_FinalScript ==
    Returned => (SelectsScript /\ (Substituted => IssuesEntryFirst))

(* C25 as the code has it: the issues entry is there whenever the validator
   said invalid and its answer carries validation_issues, substituted or
   not; without validation_issues no such entry is added. *)
C25_FinalScriptIssuesIfGiven ==
    Returned
        => /\ SelectsScript
           /\ (SaidInvalid /\ IssuesGiven) => IssuesEntryFirst
           /\ ~(SaidInvalid /\ IssuesGiven)
                 => /\ Len(Warnings) = GeneratorWarningCount
                    /\ GeneratorWarned => Warnings[1] = sql_result.warnings

C25_Witness ==
    /\ Returned
    /\ Substituted
    /\ IssuesGiven
    /\ GeneratorWarned
    /\ change_script.sql = "SQL fixed"
    /\ Len(Warnings) = 2

(* ------------------------------------------------------------------ *)
(* Shape of the fetched state                                           *)
(* ------------------------------------------------------------------ *)
FilterGiven == Truthy(fetch_args.schema_name)

WorkspaceSchemaNames ==
    {workspace.schemas[i].name : i \in 1..Len(workspace.schemas)}

(* C26: in every CurrentState get_current_state returns, tables has a map
   for exactly the schemas in schemas, volumes is empty, and with a
   schema_name filter schemas holds at most that name (none when the
   schema does not exist). *)
C26_StateShape ==
    FetchReturned
        => LET state == fetch_out.value
           IN  /\ Keys(state.tables) = Keys(state.schemas)
               /\ Len(state.tables) = Len(state.schemas)
               /\ state.volumes = <<>>
               /\ Keys(state.schemas) \subseteq WorkspaceSchemaNames
               /\ FilterGiven
                     => /\ Keys(state.schemas) \subseteq {fetch_args.schema_name}
                        /\ fetch_args.schema_name \notin WorkspaceSchemaNames
                              => state.schemas = <<>>
               /\ ~state.catalog_exists => state.schemas = <<>>

C26_Witness ==
    /\ FetchReturned
    /\ FilterGiven
    /\ WorkspaceSchemaNames = {"a", "b"}
    /\ Keys(fetch_out.value.schemas) = {"a"}
    /\ Keys(fetch_out.value.tables) = {"a"}
    /\ Lookup(fetch_out.value.tables, "a", None) = <<>>

(* ------------------------------------------------------------------ *)
(* validate_schema and generate_changes on the same model               *)
(* ------------------------------------------------------------------ *)
FrameSchemaDefs ==
    GenSchemaDefs
    \cup { MkSchemaDefinition("c", << MkSchema("a", <<>>), MkSchema("a", <<>>) >>),
           MkSchemaDefinition("c",
             << MkSchema("a", << MkTable("t", "EXTERNAL", None, <<>>) >>) >>) }

(* A validate_schema that drops the duplicate schemas it reports. *)
ValidateArgumentDropsDuplicates ==
    /\ gpc \in {"start", "returned", "raised"}
    /\ validate_out = NoResult
    /\ validate_out' = ValidateSchema(schema_def)
    /\ schema_def' = IF HasDuplicates(Names(schema_def.schemas))
                     THEN [schema_def EXCEPT !.schemas = << Head(@) >>]
                     ELSE schema_def
    /\ log' = Logged("validate_schema",
                     IF ValidateSchema(schema_def).kind = "ok" THEN "ok" ELSE "failed")
    /\ UNCHANGED <<current_state, gpc, request, analysis_result, sql_result,
                   validation_result, change_script, gen_error, prev_changes>>
    /\ UNCHANGED <<doc, ppc, parse_out>>
    /\ UNCHANGED cliVars
    /\ UNCHANGED fetchVars
    /\ UNCHANGED modelVars
    /\ UNCHANGED threadVars

(* parser.validate_schema(schema_def) on the model that is also the
   argument of generate_changes, before or after that call: its loops only
   read the model and collect messages *)
ValidateArgument ==
    /\ gpc \in {"start", "returned", "raised"}
    /\ validate_out = NoResult
    /\ validate_out' = ValidateSchema(schema_def)
    /\ log' = Logged("validate_schema",
                     IF ValidateSchema(schema_def).kind = "ok" THEN "ok" ELSE "failed")
    /\ UNCHANGED genVars
    /\ UNCHANGED <<doc, ppc, parse_out>>
    /\ UNCHANGED cliVars
    /\ UNCHANGED fetchVars
    /\ UNCHANGED modelVars
    /\ UNCHANGED threadVars

InitFrame ==
    /\ schema_def \in FrameSchemaDefs
    /\ current_state \in GenCurrentStates
    /\ gpc = "start"
    /\ request = NoResult
    /\ analysis_result = NoResult
    /\ sql_result = NoResult
    /\ validation_result = NoResult
    /\ change_script = NoResult
    /\ gen_error = "none"
    /\ prev_changes = <<>>
    /\ log = <<>>
    /\ doc = EmptyDoc
    /\ ppc = "unused"
    /\ parse_out = NoResult
    /\ validate_out = NoResult
    /\ CliUnused
    /\ FetchUnused
    /\ ModelsUnused
    /\ ThreadsUnused

AnalyzeFrame == AnalyzeOk(DetTexts)

NextFrame ==
    ValidateArgument \/ AnalyzeFrame \/ GenerateSqlOk \/ ValidateSqlOk \/ LlmFails

SpecFrame == InitFrame /\ [][NextFrame]_vars

(* C27: validate_schema and generate_changes only read their arguments:
   no step of either call, returning or raising, changes the
   SchemaDefinition or the CurrentState. *)
C27_InputsUnchanged ==
    [][schema_def' = schema_def /\ current_state' = current_state]_vars

C27_Witness ==
    /\ validate_out # NoResult
    /\ validate_out.kind = "ValidationError"
    /\ gpc = "returned"
    /\ HasDuplicates(Names(schema_def.schemas))
    /\ current_state \in GenCurrentStates

====
